---- MODULE Spec2Model ----
(***************************************************************************)
(* Model of the configuration binding of package config (config.go,        *)
(* flag.go): New registers one flag per leaf of the caller's struct,       *)
(* parses the command line, decodes the optional YAML file, applies the    *)
(* --from-env mappings and then the changed flags.                         *)
(*                                                                         *)
(* Go strings are sequences of one-character strings, so that splitting,   *)
(* trimming, case folding and number parsing are computed, not assumed.    *)
(***************************************************************************)
EXTENDS Integers, Sequences, FiniteSets, TLC

VARIABLES
    pc,        \* position of New: start, registering, registered, parsed, loaded, done, failed, panic
    root,      \* name of the struct type of the caller's object
    obj,       \* the caller's object: field path -> value
    obj0,      \* the object as the caller passed it (history)
    objFile,   \* the object right after the file phase (history)
    allocs,    \* pointer path -> number of allocations made by New (history)
    flags,     \* cmd.PersistentFlags(): sequence of registered flags
    argv,      \* os.Args[1:], as a sequence of (flag name, raw value)
    fset,      \* flag name -> value record, for the flags that were Changed
    fromEnv,   \* the parsed --from-env slice
    mi,        \* index of the next --from-env pair of the loop of applyFlagOverrides
    mlog,      \* outcome of each processed pair (history of the diagnostics)
    env,       \* the process environment: name -> value
    file,      \* what is at the --config path: a document, or unreadable
    ret,       \* what New returned: "none", "nil" or "object"
    err,       \* the error New returned: "none" or its kind
    sVal,      \* resolveEnvVar's argument (substitution specification)
    sRes       \* resolveEnvVar's result (substitution specification)

vars == <<pc, root, obj, obj0, objFile, allocs, flags, argv, fset, fromEnv, mi,
          mlog, env, file, ret, err, sVal, sRes>>

-----------------------------------------------------------------------------
(* Strings *)

UpperChars == <<"A","B","C","D","E","F","G","H","I","J","K","L","M",
                "N","O","P","Q","R","S","T","U","V","W","X","Y","Z">>
LowerChars == <<"a","b","c","d","e","f","g","h","i","j","k","l","m",
                "n","o","p","q","r","s","t","u","v","w","x","y","z">>
DigitChars == <<"0","1","2","3","4","5","6","7","8","9">>

\* unicode.ToLower, as a table from the upper-case letters
LowerOf == [c \in {UpperChars[i] : i \in DOMAIN UpperChars} |->
              LowerChars[CHOOSE i \in DOMAIN UpperChars : UpperChars[i] = c]]
ToLowerChar(c) == IF c \in DOMAIN LowerOf THEN LowerOf[c] ELSE c

\* strings.ToLower
ToLower(s) == [i \in DOMAIN s |-> ToLowerChar(s[i])]

\* s[from:to] of Go, with 0-based from (inclusive) and to (exclusive)
Slice(s, from, to) == SubSeq(s, from + 1, to)

HasPrefix(s, p) == Len(s) >= Len(p) /\ SubSeq(s, 1, Len(p)) = p

\* strings.Index: 0-based position of the first occurrence of sep, -1 if none
RECURSIVE IndexFrom(_, _, _)
IndexFrom(s, sep, i) ==
    IF i + Len(sep) > Len(s) THEN -1
    ELSE IF SubSeq(s, i + 1, i + Len(sep)) = sep THEN i
    ELSE IndexFrom(s, sep, i + 1)
Index(s, sep) == IndexFrom(s, sep, 0)

\* strings.Split(s, sep) for a non-empty sep: always at least one part
RECURSIVE Split(_, _)
Split(s, sep) ==
    LET i == Index(s, sep)
    IN IF i < 0 THEN <<s>>
       ELSE <<Slice(s, 0, i)>> \o Split(Slice(s, i + Len(sep), Len(s)), sep)

\* strings.SplitN(s, sep, 2): at most two parts, the rest unsplit
SplitN2(s, sep) ==
    LET i == Index(s, sep)
    IN IF i < 0 THEN <<s>>
       ELSE <<Slice(s, 0, i), Slice(s, i + Len(sep), Len(s))>>

IsSpace(c) == c \in {" ", "\t", "\n", "\r"}

\* strings.TrimSpace
RECURSIVE TrimLeft(_)
TrimLeft(s) == IF s # <<>> /\ IsSpace(Head(s)) THEN TrimLeft(Tail(s)) ELSE s
RECURSIVE TrimRight(_)
TrimRight(s) ==
    IF s # <<>> /\ IsSpace(s[Len(s)]) THEN TrimRight(SubSeq(s, 1, Len(s) - 1)) ELSE s
TrimSpace(s) == TrimRight(TrimLeft(s))

\* a.b.c from <<a, b, c>>
RECURSIVE Join(_, _)
Join(parts, sep) ==
    IF parts = <<>> THEN <<>>
    ELSE IF Len(parts) = 1 THEN parts[1]
    ELSE parts[1] \o sep \o Join(Tail(parts), sep)

-----------------------------------------------------------------------------
(* The environment *)

\* os.Getenv: the value, or "" when the variable is not set
Getenv(e, name) == IF name \in DOMAIN e THEN e[name] ELSE <<>>

\* a faulty variant: the lookup result is returned even when it is empty
resolveEnvVarNoFallback(e, val) ==
    IF Len(val) = 0 THEN val
    ELSE IF Len(val) > 3 /\ Slice(val, 0, 2) = <<"$", "{">> /\ val[Len(val)] = "}"
         THEN Getenv(e, Slice(val, 2, Len(val) - 1))
    ELSE IF val[1] = "$"
         THEN Getenv(e, Slice(val, 1, Len(val)))
    ELSE val

\* a faulty variant: a value that is itself a reference is expanded again
resolveEnvVarExpanding(e, val) ==
    LET pass(v) ==
          IF Len(v) = 0 THEN v
          ELSE IF Len(v) > 3 /\ Slice(v, 0, 2) = <<"$", "{">> /\ v[Len(v)] = "}"
               THEN LET envValue == Getenv(e, Slice(v, 2, Len(v) - 1))
                    IN IF envValue # <<>> THEN envValue ELSE v
          ELSE IF v[1] = "$"
               THEN LET envValue == Getenv(e, Slice(v, 1, Len(v)))
                    IN IF envValue # <<>> THEN envValue ELSE v
          ELSE v
    IN pass(pass(val))

\* resolveEnvVar (config.go): ${VAR}, then $VAR, else the string itself
resolveEnvVar(e, val) ==
    IF Len(val) = 0 THEN val
    ELSE IF Len(val) > 3 /\ Slice(val, 0, 2) = <<"$", "{">> /\ val[Len(val)] = "}"
         THEN LET envValue == Getenv(e, Slice(val, 2, Len(val) - 1))
              IN IF envValue # <<>> THEN envValue ELSE val
    ELSE IF val[1] = "$"
         THEN LET envValue == Getenv(e, Slice(val, 1, Len(val)))
              IN IF envValue # <<>> THEN envValue ELSE val
    ELSE val

-----------------------------------------------------------------------------
(* Values of fields.  Every value is a record of the same shape, so that   *)
(* values of different kinds can be compared.                              *)
(*   string: s        int: n        bool: b                                *)
(*   float:  n / 10^e, the decimal that was parsed, standing for the       *)
(*           nearest float64; b marks a value that was rounded to float32  *)
(*   nil, ptr: a pointer field, absent or allocated                        *)
(*   struct: an embedded struct value    opaque: any other kind (s names it)*)

Val(k, s, n, e, b) == [k |-> k, s |-> s, n |-> n, e |-> e, b |-> b]
StrV(s)      == Val("string", s, 0, 0, FALSE)
IntV(n)      == Val("int", <<>>, n, 0, FALSE)
BoolV(b)     == Val("bool", <<>>, 0, 0, b)
FloatV(n, e) == Val("float", <<>>, n, e, FALSE)
NilV         == Val("nil", <<>>, 0, 0, FALSE)
PtrV         == Val("ptr", <<>>, 0, 0, FALSE)
StructV      == Val("struct", <<>>, 0, 0, FALSE)
OpaqueV(s)   == Val("opaque", s, 0, 0, FALSE)

IntKinds   == {"int", "int8", "int16", "int64"}
FloatKinds == {"float32", "float64"}

\* a faulty variant: the switch has a case for unsigned integers as well
LeafKindsAndUint == {"string", "bool", "uint"} \cup IntKinds \cup FloatKinds

\* the kinds the switch on fieldValue.Kind() has a leaf case for
LeafKinds == {"string", "bool"} \cup IntKinds \cup FloatKinds

RECURSIVE Pow(_, _)
Pow(b, n) == IF n = 0 THEN 1 ELSE b * Pow(b, n - 1)

\* bits of a narrow integer kind; 0 for the kinds whose range the inputs never leave
Bits(kind) == CASE kind = "int8" -> 8 [] kind = "int16" -> 16 [] OTHER -> 0

\* the conversion intN(x) of reflect.Value.SetInt: two's complement wrap-around
WrapInt(kind, x) ==
    IF Bits(kind) = 0 THEN x
    ELSE LET m == Pow(2, Bits(kind)) IN ((x + m \div 2) % m) - m \div 2

\* reflect.Value.OverflowInt
OverflowInt(kind, x) == WrapInt(kind, x) # x

\* the conversion float32(x) of reflect.Value.SetFloat: a decimal n/10^e is a
\* float32 exactly when 5^e divides n (the inputs have few digits); any other
\* value is rounded and differs from the float64 it came from
RoundFloat(kind, v) ==
    IF kind = "float32" /\ v.n % Pow(5, v.e) # 0 THEN [v EXCEPT !.b = TRUE] ELSE v

\* the zero value of a kind
Zero(kind) ==
    CASE kind = "string" -> StrV(<<>>)
      [] kind \in IntKinds -> IntV(0)
      [] kind = "bool" -> BoolV(FALSE)
      [] kind \in FloatKinds -> FloatV(0, 0)
      [] kind = "ptr" -> NilV
      [] kind = "struct" -> StructV
      [] OTHER -> OpaqueV(<<>>)

-----------------------------------------------------------------------------
(* strconv *)

DigitOf == [c \in {DigitChars[i] : i \in DOMAIN DigitChars} |->
              (CHOOSE i \in DOMAIN DigitChars : DigitChars[i] = c) - 1]
IsDigit(c) == c \in DOMAIN DigitOf
DigitVal(c) == DigitOf[c]
AllDigits(s, base) == \A i \in DOMAIN s : IsDigit(s[i]) /\ DigitVal(s[i]) < base

RECURSIVE DigitsValue(_, _)
DigitsValue(s, base) ==
    IF s = <<>> THEN 0
    ELSE DigitsValue(SubSeq(s, 1, Len(s) - 1), base) * base + DigitVal(s[Len(s)])

Failed == [ok |-> FALSE, v |-> NilV]
Parsed(v) == [ok |-> TRUE, v |-> v]

\* the sign and the rest of a number
SignOf(s) == IF s # <<>> /\ s[1] = "-" THEN -1 ELSE 1
Unsigned(s) == IF s # <<>> /\ s[1] \in {"-", "+"} THEN Tail(s) ELSE s

\* strconv.ParseInt(s, 10, 64); the inputs stay within 9 digits
ParseInt(s) ==
    LET d == Unsigned(s)
    IN IF d = <<>> \/ ~AllDigits(d, 10) THEN Failed
       ELSE Parsed(IntV(SignOf(s) * DigitsValue(d, 10)))

\* strconv.ParseInt(s, 0, 64) of pflag's int64 value: a leading 0 means octal
\* (the prefixes 0x, 0b, 0o and underscores are not among the inputs)
ParseIntBase0(s) ==
    LET d == Unsigned(s)
    IN IF Len(d) > 1 /\ d[1] = "0"
       THEN IF AllDigits(Tail(d), 8)
            THEN Parsed(IntV(SignOf(s) * DigitsValue(Tail(d), 8))) ELSE Failed
       ELSE ParseInt(s)

\* strconv.ParseBool
ParseBool(s) ==
    IF s \in {<<"1">>, <<"t">>, <<"T">>, <<"t","r","u","e">>, <<"T","R","U","E">>,
              <<"T","r","u","e">>} THEN Parsed(BoolV(TRUE))
    ELSE IF s \in {<<"0">>, <<"f">>, <<"F">>, <<"f","a","l","s","e">>,
                   <<"F","A","L","S","E">>, <<"F","a","l","s","e">>}
         THEN Parsed(BoolV(FALSE))
    ELSE Failed

\* a decimal without the trailing zeros of its fraction
RECURSIVE Normal(_, _)
Normal(n, e) == IF e > 0 /\ n % 10 = 0 THEN Normal(n \div 10, e - 1) ELSE FloatV(n, e)

\* strconv.ParseFloat(s, 64) on decimal notation: [sign] digits [. digits]
\* (exponents, hexadecimal floats, inf and nan are not among the inputs)
ParseFloat(s) ==
    LET d == Unsigned(s)
        dot == Index(d, <<".">>)
        ip == IF dot < 0 THEN d ELSE Slice(d, 0, dot)
        fp == IF dot < 0 THEN <<>> ELSE Slice(d, dot + 1, Len(d))
    IN IF Len(ip) + Len(fp) = 0 \/ ~AllDigits(ip, 10) \/ ~AllDigits(fp, 10) THEN Failed
       ELSE Parsed(Normal(SignOf(s) * DigitsValue(ip \o fp, 10), Len(fp)))

-----------------------------------------------------------------------------
(* The shapes: the struct types of the caller's configuration object.      *)
(* A field has its Go name, its raw yaml and json tags, whether it is      *)
(* exported, its kind, and for a struct or pointer the type it holds       *)
(* (elem: a struct type of TypeDef, or the kind of a primitive pointee).   *)

Field(name, yaml, json, exported, kind, elem) ==
    [name |-> name, yaml |-> yaml, json |-> json, exported |-> exported,
     kind |-> kind, elem |-> elem]

\* type Config struct {
\*     Server   Server  `yaml:"server"`
\*     Optional *Opt    `yaml:"optional,omitempty"`
\*     Debug    bool    `yaml:"debug"`
\*     secret   string
\*     Small    int8    `yaml:"small"`
\*     Rate     float32 `yaml:"rate" json:"r"`
\* }
\* type Server struct { Host string `yaml:"host"`; Port int `yaml:"port"` }
\* type Opt struct { Feature string `yaml:"feature"`; token string }
\* type Misc struct {
\*     LogLevel string
\*     Limit    uint     `yaml:"limit"`
\*     Tags     []string `yaml:"tags"`
\*     Name     *string  `yaml:"name"`
\*     Ratio    float64  `json:"ratio"`
\*     Cache    *Opt     `yaml:",omitempty" json:"cache"`
\*     Count    int16    `yaml:"count"`
\* }
\* type Clash struct { Alias string `yaml:"alias" json:"host"`; Host string `yaml:"host"` }
\* type Dup struct { Name string `yaml:"name"`; Config string `yaml:"config"` }
\* type Node struct { Name string `yaml:"name"`; Next *Node `yaml:"next"` }
TypeDef ==
    [Config |-> <<
        Field(<<"S","e","r","v","e","r">>, <<"s","e","r","v","e","r">>, <<>>, TRUE, "struct", "Server"),
        Field(<<"O","p","t","i","o","n","a","l">>, <<"o","p","t","i","o","n","a","l",",","o","m","i","t","e","m","p","t","y">>, <<>>, TRUE, "ptr", "Opt"),
        Field(<<"D","e","b","u","g">>, <<"d","e","b","u","g">>, <<>>, TRUE, "bool", ""),
        Field(<<"s","e","c","r","e","t">>, <<>>, <<>>, FALSE, "string", ""),
        Field(<<"S","m","a","l","l">>, <<"s","m","a","l","l">>, <<>>, TRUE, "int8", ""),
        Field(<<"R","a","t","e">>, <<"r","a","t","e">>, <<"r">>, TRUE, "float32", "") >>,
     Server |-> <<
        Field(<<"H","o","s","t">>, <<"h","o","s","t">>, <<>>, TRUE, "string", ""),
        Field(<<"P","o","r","t">>, <<"p","o","r","t">>, <<>>, TRUE, "int", "") >>,
     Opt |-> <<
        Field(<<"F","e","a","t","u","r","e">>, <<"f","e","a","t","u","r","e">>, <<>>, TRUE, "string", ""),
        Field(<<"t","o","k","e","n">>, <<>>, <<>>, FALSE, "string", "") >>,
     Misc |-> <<
        Field(<<"L","o","g","L","e","v","e","l">>, <<>>, <<>>, TRUE, "string", ""),
        Field(<<"L","i","m","i","t">>, <<"l","i","m","i","t">>, <<>>, TRUE, "uint", ""),
        Field(<<"T","a","g","s">>, <<"t","a","g","s">>, <<>>, TRUE, "slice", ""),
        Field(<<"N","a","m","e">>, <<"n","a","m","e">>, <<>>, TRUE, "ptr", "string"),
        Field(<<"R","a","t","i","o">>, <<>>, <<"r","a","t","i","o">>, TRUE, "float64", ""),
        Field(<<"C","a","c","h","e">>, <<",","o","m","i","t","e","m","p","t","y">>, <<"c","a","c","h","e">>, TRUE, "ptr", "Opt"),
        Field(<<"C","o","u","n","t">>, <<"c","o","u","n","t">>, <<>>, TRUE, "int16", "") >>,
     Clash |-> <<
        Field(<<"A","l","i","a","s">>, <<"a","l","i","a","s">>, <<"h","o","s","t">>, TRUE, "string", ""),
        Field(<<"H","o","s","t">>, <<"h","o","s","t">>, <<>>, TRUE, "string", "") >>,
     Dup |-> <<
        Field(<<"N","a","m","e">>, <<"n","a","m","e">>, <<>>, TRUE, "string", ""),
        Field(<<"C","o","n","f","i","g">>, <<"c","o","n","f","i","g">>, <<>>, TRUE, "string", "") >>,
     Node |-> <<
        Field(<<"N","a","m","e">>, <<"n","a","m","e">>, <<>>, TRUE, "string", ""),
        Field(<<"N","e","x","t">>, <<"n","e","x","t">>, <<>>, TRUE, "ptr", "Node") >>]

StructTypes == DOMAIN TypeDef
RootTypes == {"Config", "Misc", "Clash", "Dup", "Node"}

MaxDepth == 3   \* levels of nesting of the object that are followed

\* a faulty variant: unexported fields are visited like the others
IsExportedAlways(f) == TRUE

\* reflect.StructField.IsExported
IsExported(f) == f.exported

IsStructField(f) == f.kind = "struct"
IsStructPtr(f) == f.kind = "ptr" /\ f.elem \in StructTypes
IsPrimPtr(f) == f.kind = "ptr" /\ f.elem \notin StructTypes

\* the field paths (sequences of field indexes) below a struct type, d levels
\* deep at most
RECURSIVE PathsTo(_, _)
PathsTo(t, d) ==
    UNION {
        {<<i>>} \cup
        (IF d > 1 /\ (IsStructField(TypeDef[t][i]) \/ IsStructPtr(TypeDef[t][i]))
         THEN {<<i>> \o q : q \in PathsTo(TypeDef[t][i].elem, d - 1)} ELSE {})
        : i \in DOMAIN TypeDef[t]}
PathsOf(t) == PathsTo(t, MaxDepth)

\* the struct type that holds the field at a path, and the field itself
RECURSIVE HolderOf(_, _)
HolderOf(t, p) == IF Len(p) = 1 THEN t ELSE HolderOf(TypeDef[t][p[1]].elem, Tail(p))
FieldAt(t, p) == TypeDef[HolderOf(t, p)][p[Len(p)]]

Prefixes(p) == {SubSeq(p, 1, n) : n \in 1..(Len(p) - 1)}

FieldTable == [rt \in RootTypes |-> [p \in PathsOf(rt) |-> FieldAt(rt, p)]]

\* the field exists in the object: no pointer on the way to it is nil
Live(o, p) == \A q \in Prefixes(p) : o[q].k # "nil"

\* the value of a fresh instance of a field
Fresh(f) == Zero(IF f.kind \in LeafKinds \cup {"ptr", "struct"} THEN f.kind ELSE "opaque")

\* reflect.New(elem) stored in the pointer at p: the fields below are zero
Allocate(t, o, p) ==
    [q \in DOMAIN o |->
        IF q = p THEN (IF IsPrimPtr(FieldTable[t][p])
                       THEN [Zero(FieldTable[t][p].elem) EXCEPT !.k = "ptr"] ELSE PtrV)
        ELSE IF Len(q) > Len(p) /\ SubSeq(q, 1, Len(p)) = p THEN Fresh(FieldTable[t][q])
        ELSE o[q]]

\* a faulty variant: a pointer is given a new instance on every visit
IsNilAlways(o, q) == TRUE

\* fieldValue.IsNil()
IsNil(o, q) == o[q].k = "nil"

\* the pointer at p set to nil: what it pointed to is gone
SetNil(t, o, p) ==
    [q \in DOMAIN o |->
        IF q = p THEN NilV
        ELSE IF Len(q) > Len(p) /\ SubSeq(q, 1, Len(p)) = p THEN Fresh(FieldTable[t][q])
        ELSE o[q]]

ZeroObject(t) == [p \in PathsOf(t) |-> Fresh(FieldAt(t, p))]

\* the first comma-segment of a tag
TagName(tag) == Split(tag, <<",">>)[1]

\* "Get YAML tag name or use field name" (registerFlags, applyFlagOverrides)
ExternalName(f) ==
    IF f.yaml # <<>> /\ TagName(f.yaml) # <<>> THEN TagName(f.yaml) ELSE f.name

\* flagName := prefix + "." + name
FlagName(prefix, name) == IF prefix # <<>> THEN prefix \o <<".">> \o name ELSE name

\* the names of every field, computed once from its declaration
ExternalNames == [t \in StructTypes |-> [i \in DOMAIN TypeDef[t] |->
                    ExternalName(TypeDef[t][i])]]

-----------------------------------------------------------------------------
(* Flag registration (config.go) *)

ConfigFlag  == <<"c","o","n","f","i","g">>
FromEnvFlag == <<"f","r","o","m","-","e","n","v">>

Flag(name, kind, def) == [name |-> name, kind |-> kind, def |-> def]

\* cmd.PersistentFlags() after the two control flags are added (New)
ControlFlags == <<Flag(ConfigFlag, "string", StrV(<<>>)),
                  Flag(FromEnvFlag, "stringSlice", StrV(<<>>))>>

HasFlag(fl, name) == \E i \in DOMAIN fl : fl[i].name = name
Lookup(fl, name) == fl[CHOOSE i \in DOMAIN fl : fl[i].name = name]

\* the kind of flag a leaf kind registers
FlagKind(kind) ==
    CASE kind = "string" -> "string"
      [] kind \in IntKinds -> "int64"
      [] kind = "bool" -> "bool"
      [] kind \in FloatKinds -> "float64"
      [] OTHER -> "none"

\* pflag's FlagSet.AddFlag, reached through String, Int64, Bool and Float64:
\* defining a name twice panics
AddFlag(st, name, kind, def) ==
    IF HasFlag(st.flags, name) THEN [st EXCEPT !.panic = TRUE]
    ELSE [st EXCEPT !.flags = Append(@, Flag(name, kind, def))]

\* registerFlags: the loop over the fields of the struct of type t at path p,
\* from field i on; st carries the object, the allocations and the flag set,
\* whether a definition panicked, and whether the recursion went on below the
\* levels that are followed (deep)
RECURSIVE registerFields(_, _, _, _, _, _)
registerFields(rt, st, t, p, prefix, i) ==
    IF i > Len(TypeDef[t]) \/ st.panic \/ st.deep THEN st
    ELSE
      LET f == TypeDef[t][i]
          q == p \o <<i>>
          flagName == FlagName(prefix, ExternalNames[t][i])
          next ==
            IF ~IsExported(f) THEN st
            ELSE IF f.kind = "ptr" THEN
                LET st1 == IF IsNil(st.obj, q)
                           THEN [st EXCEPT !.obj = Allocate(rt, st.obj, q),
                                           !.allocs[q] = @ + 1]
                           ELSE st
                IN IF ~IsStructPtr(f) THEN st1
                   ELSE IF Len(q) >= MaxDepth THEN [st1 EXCEPT !.deep = TRUE]
                   ELSE registerFields(rt, st1, f.elem, q, flagName, 1)
            ELSE IF f.kind = "struct" THEN
                registerFields(rt, st, f.elem, q, flagName, 1)
            ELSE IF f.kind \in LeafKinds THEN
                AddFlag(st, flagName, FlagKind(f.kind), st.obj[q])
            ELSE st
      IN registerFields(rt, next, t, p, prefix, i + 1)

registerFlags(rt, st) == registerFields(rt, st, rt, <<>>, <<>>, 1)

-----------------------------------------------------------------------------
(* Parsing the command line (cmd.Execute) *)

\* pflag's Value.Set of each kind of flag
SetFlag(kind, raw) ==
    CASE kind = "string" -> Parsed(StrV(raw))
      [] kind = "int64" -> ParseIntBase0(raw)
      [] kind = "bool" -> ParseBool(raw)
      [] kind = "float64" -> ParseFloat(raw)
      [] kind = "stringSlice" -> Parsed(StrV(raw))

\* readAsCSV of the string slice value: the entries between commas
ReadAsCSV(raw) == IF raw = <<>> THEN <<>> ELSE Split(raw, <<",">>)

\* the flags of the command line parsed in order; ps carries the changed
\* flags with their values, the --from-env slice and whether parsing failed
RECURSIVE parseArgs(_, _, _, _)
parseArgs(fl, args, i, ps) ==
    IF i > Len(args) \/ ps.failed THEN ps
    ELSE
      LET a == args[i]
      IN IF ~HasFlag(fl, a.name) THEN [ps EXCEPT !.failed = TRUE]
         ELSE
           LET kind == Lookup(fl, a.name).kind
               r == SetFlag(kind, a.raw)
           IN IF ~r.ok THEN [ps EXCEPT !.failed = TRUE]
              ELSE parseArgs(fl, args, i + 1,
                     [set |-> [n \in DOMAIN ps.set \cup {a.name} |->
                                  IF n = a.name THEN r.v ELSE ps.set[n]],
                      fromEnv |-> IF kind = "stringSlice"
                                  THEN ps.fromEnv \o ReadAsCSV(a.raw) ELSE ps.fromEnv,
                      failed |-> FALSE])

NoFlagsSet == [n \in {} |-> NilV]

\* a faulty variant: a parse error is dropped
ExecuteIgnoringErrors(fl, args) ==
    [parseArgs(fl, args, 1, [set |-> NoFlagsSet, fromEnv |-> <<>>, failed |-> FALSE])
        EXCEPT !.failed = FALSE]

Execute(fl, args) ==
    parseArgs(fl, args, 1, [set |-> NoFlagsSet, fromEnv |-> <<>>, failed |-> FALSE])

\* a faulty variant: every flag counts as set
ChangedAlways(fs, name) == TRUE

\* FlagSet.Changed
Changed(fs, name) == name \in DOMAIN fs

\* FlagSet.GetString, GetInt64, GetBool, GetFloat64 with the error dropped:
\* the zero value when the flag is of another type
GetFlag(fl, fs, name, kind) ==
    IF HasFlag(fl, name) /\ Lookup(fl, name).kind = FlagKind(kind)
    THEN (IF name \in DOMAIN fs THEN fs[name] ELSE Lookup(fl, name).def)
    ELSE Zero(kind)

-----------------------------------------------------------------------------
(* The YAML document and yaml.Unmarshal into the object (New).             *)
(* A node is a scalar with its resolved tag t and its source text txt, or  *)
(* a mapping kv of keys and nodes.                                         *)

Scalar(t, txt) == [t |-> t, txt |-> txt, kv |-> <<>>]
Mapping(kv) == [t |-> "map", txt |-> <<>>, kv |-> kv]
Entry(key, val) == [key |-> key, val |-> val]

\* the key yaml.v3 gives a field: the tag's name, else the lower-cased Go name
YamlKey(f) == IF f.yaml # <<>> /\ TagName(f.yaml) # <<>> THEN TagName(f.yaml)
              ELSE ToLower(f.name)
YamlKeys == [t \in StructTypes |-> [i \in DOMAIN TypeDef[t] |-> YamlKey(TypeDef[t][i])]]

\* the value a scalar node gives a field of a kind, or a type error
ScalarFor(kind, node) ==
    IF kind = "string" THEN Parsed(StrV(node.txt))
    ELSE IF kind \in IntKinds THEN
        LET r == IF node.t = "int" THEN ParseInt(node.txt)
                 ELSE IF node.t = "float" THEN ParseFloat(node.txt) ELSE Failed
        IN IF r.ok /\ r.v.e = 0 /\ ~OverflowInt(kind, r.v.n) THEN Parsed(IntV(r.v.n))
           ELSE Failed
    ELSE IF kind = "bool" THEN
        (IF node.t = "bool" THEN ParseBool(node.txt) ELSE Failed)
    ELSE IF kind \in FloatKinds THEN
        (IF node.t \in {"int", "float"}
         THEN LET r == ParseFloat(node.txt)
              IN IF r.ok THEN Parsed(RoundFloat(kind, r.v)) ELSE Failed
         ELSE Failed)
    ELSE IF kind = "uint" THEN
        (IF node.t = "int" /\ ParseInt(node.txt).ok /\ ParseInt(node.txt).v.n >= 0
         THEN Parsed(OpaqueV(node.txt)) ELSE Failed)
    ELSE Failed

\* getStructInfo: two fields of one struct with the same key are an error
DuplicateKeys(t) ==
    \E i, j \in DOMAIN TypeDef[t] :
        /\ i < j /\ TypeDef[t][i].exported /\ TypeDef[t][j].exported
        /\ YamlKeys[t][i] = YamlKeys[t][j]

HasDuplicateKeys == [t \in StructTypes |-> DuplicateKeys(t)]

\* decoder.unmarshal and decoder.mappingStruct of yaml.v3: ds carries the
\* object, the allocations and whether a type error was recorded.
\* decodeEntries decodes the entries of a mapping, from entry i on, into the
\* struct of type t at path p.
RECURSIVE decodeEntries(_, _, _, _, _, _)
decodeNode(rt, ds, f, q, node) ==
    IF node.t = "null" THEN
        \* decoder.null: only a pointer (map, slice, interface) is reset
        (IF f.kind = "ptr" THEN [ds EXCEPT !.obj = SetNil(rt, ds.obj, q)]
         ELSE IF f.kind = "slice" THEN [ds EXCEPT !.obj[q] = OpaqueV(<<>>)]
         ELSE ds)
    ELSE
      LET \* decoder.prepare: a nil pointer is allocated before decoding into it
          ds1 == IF f.kind = "ptr" /\ ds.obj[q].k = "nil"
                 THEN [ds EXCEPT !.obj = Allocate(rt, ds.obj, q), !.allocs[q] = @ + 1]
                 ELSE ds
      IN IF f.kind = "struct" \/ IsStructPtr(f) THEN
             (IF node.t = "map" THEN decodeEntries(rt, ds1, f.elem, q, node.kv, 1)
              ELSE [ds1 EXCEPT !.bad = TRUE])
         ELSE IF node.t = "map" THEN [ds1 EXCEPT !.bad = TRUE]
         ELSE
           LET r == ScalarFor(IF f.kind = "ptr" THEN f.elem ELSE f.kind, node)
           IN IF ~r.ok THEN [ds1 EXCEPT !.bad = TRUE]
              ELSE [ds1 EXCEPT !.obj[q] =
                       IF f.kind = "ptr" THEN [r.v EXCEPT !.k = "ptr"] ELSE r.v]

decodeEntries(rt, ds, t, p, kv, i) ==
    IF HasDuplicateKeys[t] THEN [ds EXCEPT !.bad = TRUE]
    ELSE IF i > Len(kv) THEN ds
    ELSE
      LET hits == {j \in DOMAIN TypeDef[t] :
                      TypeDef[t][j].exported /\ YamlKeys[t][j] = kv[i].key}
      IN IF hits = {} THEN decodeEntries(rt, ds, t, p, kv, i + 1)
         ELSE LET j == CHOOSE j \in hits : TRUE
              IN decodeEntries(rt,
                     decodeNode(rt, ds, TypeDef[t][j], p \o <<j>>, kv[i].val),
                     t, p, kv, i + 1)

\* yaml.Unmarshal(data, configObject): the root node is a mapping
Unmarshal(rt, o, al, doc) ==
    IF doc.t # "map" THEN [obj |-> o, allocs |-> al, bad |-> TRUE]
    ELSE decodeEntries(rt, [obj |-> o, allocs |-> al, bad |-> FALSE], rt, <<>>, doc.kv, 1)

-----------------------------------------------------------------------------
(* Path navigation (flag.go) *)

\* findFieldByNameOrTag: the Go name of the first exported field, from field
\* i on, whose name, yaml name or json name equals the segment in lower case;
\* "" when there is none
\* what a field answers to, in lower case: its Go name, and its yaml name and
\* its json name when the tag is declared
LowerNames == [t \in StructTypes |-> [i \in DOMAIN TypeDef[t] |->
    LET field == TypeDef[t][i]
    IN {ToLower(field.name)}
       \cup (IF field.yaml # <<>> THEN {ToLower(TagName(field.yaml))} ELSE {})
       \cup (IF field.json # <<>> THEN {ToLower(TagName(field.json))} ELSE {})]]

RECURSIVE findFrom(_, _, _)
findFrom(t, nameLower, i) ==
    IF i > Len(TypeDef[t]) THEN <<>>
    ELSE IF ~IsExported(TypeDef[t][i]) THEN findFrom(t, nameLower, i + 1)
    ELSE IF nameLower \in LowerNames[t][i] THEN TypeDef[t][i].name
    ELSE findFrom(t, nameLower, i + 1)

\* a faulty variant: the segment is compared without folding its case
findFieldCaseSensitive(t, name) == findFrom(t, name, 1)

findFieldByNameOrTag(t, name) == findFrom(t, ToLower(name), 1)

\* reflect.Value.FieldByName: the index of the field with that Go name, 0 if none
FieldByName(t, fieldName) ==
    IF \E i \in DOMAIN TypeDef[t] : TypeDef[t][i].name = fieldName
    THEN CHOOSE i \in DOMAIN TypeDef[t] : TypeDef[t][i].name = fieldName
    ELSE 0

\* the switch on field.Kind() that ends setValueByPath: the value converted
\* to the kind of the leaf, or an error
ConvertFor(kind, value) ==
    IF kind = "string" THEN Parsed(StrV(value))
    ELSE IF kind \in IntKinds THEN
        LET r == ParseInt(value)
        IN IF r.ok THEN Parsed(IntV(WrapInt(kind, r.v.n))) ELSE Failed
    ELSE IF kind = "bool" THEN ParseBool(value)
    ELSE IF kind \in FloatKinds THEN
        LET r == ParseFloat(value)
        IN IF r.ok THEN Parsed(RoundFloat(kind, r.v)) ELSE Failed
    ELSE Failed

\* the result of a navigation: the object, the allocations, how it ended
\* ("set", or the diagnostic, or "panic") and the path of the field written
NavEnd(o, al, out, at) == [obj |-> o, allocs |-> al, out |-> out, at |-> at]

\* setValueByPath from segment i on; t is the struct type of current ("" when
\* current points to a primitive) and p its path
RECURSIVE navigate(_, _, _, _, _, _, _, _)
navigate(rt, o, al, t, p, segments, i, value) ==
    IF i < Len(segments) THEN
        IF t \notin StructTypes THEN NavEnd(o, al, "not a struct", <<>>)
        ELSE
          LET fieldName == findFieldByNameOrTag(t, segments[i])
              j == FieldByName(t, fieldName)
          IN IF fieldName = <<>> THEN NavEnd(o, al, "not found", <<>>)
             ELSE IF j = 0 THEN NavEnd(o, al, "invalid", <<>>)
             ELSE
               LET f == TypeDef[t][j]
                   q == p \o <<j>>
               IN IF f.kind = "ptr" THEN
                      LET nil == IsNil(o, q)
                          o1 == IF nil THEN Allocate(rt, o, q) ELSE o
                          al1 == IF nil THEN [al EXCEPT ![q] = @ + 1] ELSE al
                      IN navigate(rt, o1, al1, f.elem, q, segments, i + 1, value)
                  ELSE IF f.kind = "struct" THEN
                      navigate(rt, o, al, f.elem, q, segments, i + 1, value)
                  ELSE NavEnd(o, al, "not a struct or pointer", <<>>)
    ELSE
        \* v.Type().NumField() panics when current points to a primitive
        IF t \notin StructTypes THEN NavEnd(o, al, "panic", <<>>)
        ELSE
          LET fieldName == findFieldByNameOrTag(t, segments[i])
              j == FieldByName(t, fieldName)
          IN IF fieldName = <<>> THEN NavEnd(o, al, "not found", <<>>)
             ELSE IF j = 0 THEN NavEnd(o, al, "invalid", <<>>)
             ELSE IF ~TypeDef[t][j].exported THEN NavEnd(o, al, "cannot set", <<>>)
             ELSE
               LET f == TypeDef[t][j]
                   q == p \o <<j>>
                   r == ConvertFor(f.kind, value)
               IN IF f.kind \notin LeafKinds THEN NavEnd(o, al, "unsupported", <<>>)
                  ELSE IF ~r.ok THEN NavEnd(o, al, "cannot convert", <<>>)
                  ELSE NavEnd([o EXCEPT ![q] = r.v], al, "set", q)

\* setValueByPath(cmd, config, path, value): config is the struct of type t at
\* path p of the object
setValueByPath(rt, o, al, t, p, path, value) ==
    navigate(rt, o, al, t, p, Split(path, <<".">>), 1, value)

\* a faulty variant: the two parts of a pair are used untrimmed
applyPairUntrimmed(rt, o, al, t, p, e, pair) ==
    LET parts == SplitN2(pair, <<":", ":">>)
    IN IF Len(parts) # 2 THEN NavEnd(o, al, "invalid format", <<>>)
       ELSE IF Getenv(e, parts[2]) = <<>> THEN NavEnd(o, al, "not set or empty", <<>>)
       ELSE setValueByPath(rt, o, al, t, p, parts[1], Getenv(e, parts[2]))

\* a faulty variant: an unset or empty variable is applied like any other
applyPairNoEmptyCheck(rt, o, al, t, p, e, pair) ==
    LET parts == SplitN2(pair, <<":", ":">>)
    IN IF Len(parts) # 2 THEN NavEnd(o, al, "invalid format", <<>>)
       ELSE setValueByPath(rt, o, al, t, p, TrimSpace(parts[1]), Getenv(e, TrimSpace(parts[2])))

\* a faulty variant: the value passes through resolveEnvVar before it is set
applyPairSubstituting(rt, o, al, t, p, e, pair) ==
    LET parts == SplitN2(pair, <<":", ":">>)
    IN IF Len(parts) # 2 THEN NavEnd(o, al, "invalid format", <<>>)
       ELSE IF Getenv(e, TrimSpace(parts[2])) = <<>>
            THEN NavEnd(o, al, "not set or empty", <<>>)
       ELSE setValueByPath(rt, o, al, t, p, TrimSpace(parts[1]),
                           resolveEnvVar(e, Getenv(e, TrimSpace(parts[2]))))

\* one pass of the loop over the --from-env pairs (applyFlagOverrides)
applyPair(rt, o, al, t, p, e, pair) ==
    LET parts == SplitN2(pair, <<":", ":">>)
    IN IF Len(parts) # 2 THEN NavEnd(o, al, "invalid format", <<>>)
       ELSE
         LET configPath == TrimSpace(parts[1])
             envVarName == TrimSpace(parts[2])
             envValue == Getenv(e, envVarName)
         IN IF envValue = <<>> THEN NavEnd(o, al, "not set or empty", <<>>)
            ELSE setValueByPath(rt, o, al, t, p, configPath, envValue)

-----
(* The flag-override walk (applyFlagOverrides, after the --from-env loop) *)

\* the value a changed flag stores in a leaf of a kind
FlagValueFor(fl, fs, e, flagName, kind) ==
    LET val == GetFlag(fl, fs, flagName, kind)
    IN IF kind = "string" THEN StrV(resolveEnvVar(e, val.s))
       ELSE IF kind \in IntKinds THEN IntV(WrapInt(kind, val.n))
       ELSE IF kind \in FloatKinds THEN RoundFloat(kind, val)
       ELSE val

\* a faulty variant: a flag only fills a leaf that still holds the flag's default
StoreFlagIfDefault(fl, fs, e, o, q, flagName, kind) ==
    IF Changed(fs, flagName) /\ o[q] = Lookup(fl, flagName).def
    THEN [o EXCEPT ![q] = FlagValueFor(fl, fs, e, flagName, kind)]
    ELSE o

\* a faulty variant: a flag given its default value does not count as set
StoreFlagUnlessDefault(fl, fs, e, o, q, flagName, kind) ==
    IF Changed(fs, flagName) /\ fs[flagName] # Lookup(fl, flagName).def
    THEN [o EXCEPT ![q] = FlagValueFor(fl, fs, e, flagName, kind)]
    ELSE o

\* a leaf case of the switch: "if cmd.PersistentFlags().Changed(flagName)",
\* the typed Get and the Set of the field
StoreFlag(fl, fs, e, o, q, flagName, kind) ==
    IF Changed(fs, flagName)
    THEN [o EXCEPT ![q] = FlagValueFor(fl, fs, e, flagName, kind)]
    ELSE o

\* a faulty variant: the pairs are taken last to first
RangePairBackwards(fromEnvPairs, i) == fromEnvPairs[Len(fromEnvPairs) + 1 - i]

\* the pair of pass i of "for _, pair := range fromEnvPairs"
RangePair(fromEnvPairs, i) == fromEnvPairs[i]

\* a faulty variant: every call of applyFlagOverrides counts as the root call
AtRootAlways(prefix) == TRUE

\* prefix == "": the call of applyFlagOverrides is the one New makes
AtRoot(prefix) == prefix = <<>>

\* the state of the walk: the object, the allocations, the outcome of every
\* pair processed, and whether a navigation panicked
Walk(o, al, log, panic) == [obj |-> o, allocs |-> al, mlog |-> log, panic |-> panic]

\* the walk after a pair ended as r: the outcome is recorded, and a panic
\* stops the walk
AfterPair(w, r) ==
    Walk(r.obj, r.allocs, Append(w.mlog, [out |-> r.out, at |-> r.at]), r.out = "panic")

\* "for _, pair := range fromEnvPairs" of a call of applyFlagOverrides on the
\* struct of type t at path p, from pass i on
RECURSIVE mappingLoop(_, _, _, _, _, _, _)
mappingLoop(rt, e, fromEnvPairs, w, t, p, i) ==
    IF i > Len(fromEnvPairs) \/ w.panic THEN w
    ELSE mappingLoop(rt, e, fromEnvPairs,
             AfterPair(w, applyPair(rt, w.obj, w.allocs, t, p, e,
                                    RangePair(fromEnvPairs, i))),
             t, p, i + 1)

\* the from-env loop that opens a call of applyFlagOverrides, when the prefix
\* is empty and the flag was set
enterOverrides(rt, fs, e, fromEnvPairs, w, t, p, prefix) ==
    IF AtRoot(prefix) /\ Changed(fs, FromEnvFlag)
    THEN mappingLoop(rt, e, fromEnvPairs, w, t, p, 1) ELSE w

\* the loop over the fields of the value of type t at path p, from field i
\* on ("if t.Kind() != reflect.Struct { return }" when t is not a struct); a
\* struct and a pointer that is not nil are walked by a recursive call
\* applyFlagOverrides(cmd, field, flagName), which opens with the from-env loop
RECURSIVE overrideFields(_, _, _, _, _, _, _, _, _, _)
overrideFields(rt, fl, fs, e, fromEnvPairs, w, t, p, prefix, i) ==
    IF t \notin StructTypes THEN w
    ELSE IF i > Len(TypeDef[t]) \/ w.panic THEN w
    ELSE
      LET f == TypeDef[t][i]
          q == p \o <<i>>
          flagName == FlagName(prefix, ExternalNames[t][i])
          next ==
            IF ~IsExported(f) THEN w
            ELSE IF f.kind = "struct" \/ (f.kind = "ptr" /\ w.obj[q].k # "nil") THEN
                overrideFields(rt, fl, fs, e, fromEnvPairs,
                    enterOverrides(rt, fs, e, fromEnvPairs, w, f.elem, q, flagName),
                    f.elem, q, flagName, 1)
            ELSE IF f.kind \in LeafKinds THEN
                [w EXCEPT !.obj = StoreFlag(fl, fs, e, w.obj, q, flagName, f.kind)]
            ELSE w
      IN overrideFields(rt, fl, fs, e, fromEnvPairs, next, t, p, prefix, i + 1)

\* the call New makes, after its from-env loop: the walk over the fields
applyFlagOverrides(rt, fl, fs, e, fromEnvPairs, w) ==
    overrideFields(rt, fl, fs, e, fromEnvPairs, w, rt, <<>>, <<>>, 1)

-----------------------------------------------------------------------------
(* Inputs: the caller's object, the environment, the command line and the  *)
(* file, each drawn from a small pool per shape.                           *)

MaxFlagArgs == 1   \* leaf flags on one command line
MaxPairs == 2      \* --from-env pairs on one command line without leaf flags
MaxPairsBesideFlags == 1   \* --from-env pairs on a command line with leaf flags

\* the object the caller passes: zero, but for the defaults stored in it
Preset(rt) ==
    LET z == ZeroObject(rt)
    IN CASE rt = "Config" ->
              [z EXCEPT ![<<1, 2>>] = IntV(8080), ![<<4>>] = StrV(<<"s","3">>),
                        ![<<5>>] = IntV(1)]
         [] rt = "Misc" ->
              [Allocate(rt, z, <<6>>) EXCEPT
                        ![<<1>>] = StrV(<<"i","n","f","o">>), ![<<2>>] = OpaqueV(<<"7">>),
                        ![<<6, 1>>] = StrV(<<"c">>), ![<<6, 2>>] = StrV(<<"t","k">>)]
         [] OTHER -> z

EnvFun(names, vals) == [n \in {names[i] : i \in DOMAIN names} |->
                           vals[CHOOSE i \in DOMAIN names : names[i] = n]]

\* H=api P=5432 E= R=$H B=300 T=true F=0.1 (U is not set)
EnvRich == EnvFun(<<<<"H">>, <<"P">>, <<"E">>, <<"R">>, <<"B">>, <<"T">>, <<"F">>>>,
                  <<<<"a","p","i">>, <<"5","4","3","2">>, <<>>, <<"$","H">>, <<"3","0","0">>, <<"t","r","u","e">>, <<"0",".","1">>>>)
\* H=db P=abc (the others are not set)
EnvPoor == EnvFun(<<<<"H">>, <<"P">>>>, <<<<"d","b">>, <<"a","b","c">>>>)
Envs == {EnvRich, EnvPoor}

Arg(name, raw) == [name |-> name, raw |-> raw]

\* settings of leaf flags (and of flags that do not exist)
FlagPool(rt) ==
    CASE rt = "Config" ->
           {Arg(<<"s","e","r","v","e","r",".","h","o","s","t">>, <<"f","h">>), Arg(<<"s","e","r","v","e","r",".","h","o","s","t">>, <<"$","H">>),
            Arg(<<"s","e","r","v","e","r",".","h","o","s","t">>, <<"$","{","U","}">>), Arg(<<"s","e","r","v","e","r",".","p","o","r","t">>, <<"9","0","0","0">>),
            Arg(<<"s","e","r","v","e","r",".","p","o","r","t">>, <<"a","b","c">>), Arg(<<"s","m","a","l","l">>, <<"3","0","0">>),
            Arg(<<"o","p","t","i","o","n","a","l",".","f","e","a","t","u","r","e">>, <<"x">>), Arg(<<"d","e","b","u","g">>, <<"t","r","u","e">>),
            Arg(<<"r","a","t","e">>, <<"0",".","1">>), Arg(<<"s","e","c","r","e","t">>, <<"x">>),
            Arg(<<"s","e","r","v","e","r",".","p","o","r","t">>, <<"8","0","8","0">>),
            Arg(<<"s","e","r","v","e","r",".","h","o","s","t">>, <<"$","E">>)}
      [] rt = "Misc" ->
           {Arg(<<"L","o","g","L","e","v","e","l">>, <<"d","e","b","u","g">>), Arg(<<"R","a","t","i","o">>, <<"1",".","5","0">>),
            Arg(<<"c","o","u","n","t">>, <<"4","0","0","0","0">>), Arg(<<"n","a","m","e">>, <<"x">>), Arg(<<"l","i","m","i","t">>, <<"1">>),
            Arg(<<"C","a","c","h","e",".","f","e","a","t","u","r","e">>, <<"x">>)}
      [] rt = "Clash" ->
           {Arg(<<"h","o","s","t">>, <<"f","h">>), Arg(<<"a","l","i","a","s">>, <<"f","a">>)}
      [] OTHER -> {}

\* --from-env pairs
PairPool(rt) ==
    CASE rt = "Config" ->
           {<<"s","e","r","v","e","r",".","h","o","s","t",":",":","H">>, <<"S","E","R","V","E","R",".","H","o","s","t",":",":","P">>, <<" ","s","e","r","v","e","r",".","h","o","s","t"," ",":",":"," ","R"," ">>,
            <<"o","n","l","y","o","n","e","p","a","r","t">>, <<"s","e","r","v","e","r",".","p","o","r","t",":",":","U">>, <<"s","e","r","v","e","r",".","h","o","s","t",":",":","E">>, <<"s","e","r","v","e","r",".","p","o","r","t",":",":","P">>,
            <<"s","m","a","l","l",":",":","B">>, <<"o","p","t","i","o","n","a","l",".","f","e","a","t","u","r","e",":",":","H">>, <<"o","p","t","i","o","n","a","l",".","n","o","s","u","c","h",":",":","H">>, <<"s","e","c","r","e","t",":",":","H">>,
            <<"S","E","C","R","E","T",":",":","H">>, <<"d","e","b","u","g",":",":","T">>, <<"r","a","t","e",":",":","F">>, <<"r",":",":","F">>, <<"s","e","r","v","e","r",":",":","H">>,
            <<"s","e","r","v","e","r",".","h","o","s","t",".","x",":",":","H">>}
      [] rt = "Misc" ->
           {<<"l","o","g","l","e","v","e","l",":",":","H">>, <<"L","o","g","L","e","v","e","l",":",":","P">>, <<"r","a","t","i","o",":",":","F">>, <<"R","a","t","i","o",":",":","F">>,
            <<"c","a","c","h","e",".","f","e","a","t","u","r","e",":",":","H">>, <<"C","a","c","h","e",".","F","e","a","t","u","r","e",":",":","P">>, <<"c","a","c","h","e",".","t","o","k","e","n",":",":","H">>,
            <<"n","a","m","e",":",":","H">>, <<"n","a","m","e",".","x",":",":","H">>, <<"l","i","m","i","t",":",":","P">>, <<"c","o","u","n","t",":",":","B">>}
      [] rt = "Clash" ->
           {<<"h","o","s","t",":",":","H">>, <<"H","o","s","t",":",":","P">>, <<"a","l","i","a","s",":",":","H">>, <<"A","L","I","A","S",":",":","P">>}
      [] OTHER -> {}

Str(txt) == Scalar("str", txt)
Unreadable == Scalar("unreadable", <<>>)
NoFile == Scalar("none", <<>>)

\* what may be at the --config path
FilePool(rt) ==
    {Unreadable} \cup
    CASE rt = "Config" ->
           {Mapping(<<Entry(<<"s","e","r","v","e","r">>, Mapping(<<Entry(<<"p","o","r","t">>, Scalar("int", <<"9","0","0","0">>)),
                                               Entry(<<"h","o","s","t">>, Str(<<"$","{","H","}">>))>>))>>),
            Mapping(<<Entry(<<"o","p","t","i","o","n","a","l">>, Scalar("null", <<"n","u","l","l">>)),
                      Entry(<<"s","e","r","v","e","r">>, Mapping(<<Entry(<<"h","o","s","t">>, Str(<<"f","f">>))>>))>>),
            Mapping(<<Entry(<<"o","p","t","i","o","n","a","l">>, Mapping(<<Entry(<<"f","e","a","t","u","r","e">>, Str(<<"o","f">>))>>)),
                      Entry(<<"s","m","a","l","l">>, Scalar("int", <<"5">>)),
                      Entry(<<"d","e","b","u","g">>, Scalar("bool", <<"t","r","u","e">>)),
                      Entry(<<"r","a","t","e">>, Scalar("float", <<"0",".","5">>)),
                      Entry(<<"u","n","k","n","o","w","n">>, Scalar("int", <<"1">>))>>),
            Mapping(<<Entry(<<"d","e","b","u","g">>, Scalar("bool", <<"t","r","u","e">>)),
                      Entry(<<"s","e","r","v","e","r">>, Str(<<"n","o","t","a","m","a","p">>))>>)}
      [] rt = "Misc" ->
           {Mapping(<<Entry(<<"l","o","g","l","e","v","e","l">>, Str(<<"l","f">>)), Entry(<<"n","a","m","e">>, Str(<<"n","f">>)),
                      Entry(<<"c","a","c","h","e">>, Scalar("null", <<"n","u","l","l">>))>>),
            Mapping(<<Entry(<<"c","a","c","h","e">>, Mapping(<<Entry(<<"f","e","a","t","u","r","e">>, Str(<<"c","f">>))>>)),
                      Entry(<<"c","o","u","n","t">>, Scalar("int", <<"7">>)),
                      Entry(<<"l","i","m","i","t">>, Scalar("int", <<"3">>)),
                      Entry(<<"r","a","t","i","o">>, Scalar("float", <<"2",".","5">>))>>)}
      [] rt = "Clash" ->
           {Mapping(<<Entry(<<"h","o","s","t">>, Str(<<"h","f">>)), Entry(<<"a","l","i","a","s">>, Str(<<"a","f">>))>>)}
      [] OTHER -> {}

\* sequences of at most n elements of a set
RECURSIVE SeqsUpTo(_, _)
SeqsUpTo(S, n) ==
    IF n = 0 THEN {<<>>}
    ELSE LET shorter == SeqsUpTo(S, n - 1)
         IN shorter \cup {Append(q, x) : q \in shorter, x \in S}

\* the pairs given on a command line that also sets leaf flags: those that
\* name a leaf a flag of the pool names too
PairsBesideFlags(rt) ==
    CASE rt = "Config" ->
           {<<"s","e","r","v","e","r",".","h","o","s","t",":",":","H">>, <<"s","e","r","v","e","r",".","p","o","r","t",":",":","P">>, <<"s","m","a","l","l",":",":","B">>, <<"o","p","t","i","o","n","a","l",".","f","e","a","t","u","r","e",":",":","H">>}
      [] rt = "Misc" -> {<<"l","o","g","l","e","v","e","l",":",":","H">>, <<"c","o","u","n","t",":",":","B">>, <<"c","a","c","h","e",".","f","e","a","t","u","r","e",":",":","H">>}
      [] rt = "Clash" -> {<<"h","o","s","t",":",":","H">>, <<"a","l","i","a","s",":",":","P">>}
      [] OTHER -> {}

PairArgs(pa) == [i \in DOMAIN pa |-> Arg(FromEnvFlag, pa[i])]

\* the command lines: leaf flags, then --from-env pairs, then maybe --config;
\* either leaf flags beside few pairs, or pairs alone
CommandLines(rt) ==
    {fa \o PairArgs(pa) \o ca :
        fa \in SeqsUpTo(FlagPool(rt), MaxFlagArgs),
        pa \in SeqsUpTo(PairsBesideFlags(rt), MaxPairsBesideFlags),
        ca \in {<<>>, <<Arg(ConfigFlag, <<"f">>)>>}}
    \cup
    {PairArgs(pa) \o ca :
        pa \in SeqsUpTo(PairPool(rt), MaxPairs),
        ca \in {<<>>, <<Arg(ConfigFlag, <<"f">>)>>}}

CommandLinesOf == [rt \in RootTypes |-> CommandLines(rt)]
FilePoolOf == [rt \in RootTypes |-> FilePool(rt)]

-----------------------------------------------------------------------------
(* New, step by step *)

NoAllocs(rt) == [p \in PathsOf(rt) |-> 0]

\* the substitution specification does not move New, and conversely
IdleSubst == sVal = <<>> /\ sRes = <<>>

Init ==
    /\ pc = "start"
    /\ root \in RootTypes
    /\ obj = Preset(root) /\ obj0 = obj /\ objFile = obj
    /\ allocs = NoAllocs(root)
    /\ flags = ControlFlags
    /\ argv = <<>> /\ fset = NoFlagsSet /\ fromEnv = <<>>
    /\ mi = 0 /\ mlog = <<>>
    /\ env \in Envs
    /\ file = NoFile
    /\ ret = "none" /\ err = "none"
    /\ IdleSubst

\* registerFlags(cmd, configObject, "")
Register ==
    /\ pc = "start"
    /\ LET st == registerFlags(root, [obj |-> obj, allocs |-> allocs,
                                      flags |-> flags, panic |-> FALSE,
                                      deep |-> FALSE])
       IN /\ obj' = st.obj /\ allocs' = st.allocs /\ flags' = st.flags
          /\ pc' = IF st.panic THEN "panic"
                   ELSE IF st.deep THEN "registering"
                   ELSE "registered"
    /\ UNCHANGED <<root, obj0, objFile, argv, fset, fromEnv, mi, mlog, env, file,
                   ret, err, sVal, sRes>>

\* cmd.SetArgs(os.Args[1:]); cmd.Execute()
Parse ==
    /\ pc = "registered"
    /\ \E args \in CommandLinesOf[root] :
          LET ps == Execute(flags, args)
          IN /\ argv' = args
             /\ IF ps.failed
                THEN /\ pc' = "failed" /\ ret' = "nil" /\ err' = "parse"
                     /\ UNCHANGED <<fset, fromEnv>>
                ELSE /\ pc' = "parsed" /\ fset' = ps.set /\ fromEnv' = ps.fromEnv
                     /\ UNCHANGED <<ret, err>>
    /\ UNCHANGED <<root, obj, obj0, objFile, allocs, flags, mi, mlog, env, file,
                   sVal, sRes>>

\* "Load config file if specified": os.ReadFile and yaml.Unmarshal
LoadFile ==
    /\ pc = "parsed"
    /\ LET configFile == GetFlag(flags, fset, ConfigFlag, "string").s
       IN IF configFile = <<>>
          THEN /\ pc' = "loaded" /\ mi' = 1 /\ objFile' = obj
               /\ UNCHANGED <<obj, allocs, file, ret, err>>
          ELSE \E content \in FilePoolOf[root] :
                 /\ file' = content
                 /\ IF content = Unreadable
                    THEN /\ pc' = "failed" /\ ret' = "nil" /\ err' = "read"
                         /\ UNCHANGED <<obj, objFile, allocs, mi>>
                    ELSE LET ds == Unmarshal(root, obj, allocs, content)
                         IN /\ obj' = ds.obj /\ allocs' = ds.allocs
                            /\ IF ds.bad
                               THEN /\ pc' = "failed" /\ ret' = "nil"
                                    /\ err' = "unmarshal"
                                    /\ UNCHANGED <<objFile, mi>>
                               ELSE /\ pc' = "loaded" /\ mi' = 1
                                    /\ objFile' = ds.obj
                                    /\ UNCHANGED <<ret, err>>
    /\ UNCHANGED <<root, obj0, flags, argv, fset, fromEnv, mlog, env, sVal, sRes>>

\* one pass of "for _, pair := range fromEnvPairs" (applyFlagOverrides)
ApplyPair ==
    /\ pc = "loaded"
    /\ AtRoot(<<>>) /\ Changed(fset, FromEnvFlag)
    /\ mi <= Len(fromEnv)
    /\ \E r \in {applyPair(root, obj, allocs, root, <<>>, env, RangePair(fromEnv, mi))} :
          /\ obj' = r.obj /\ allocs' = r.allocs
          /\ mlog' = Append(mlog, [out |-> r.out, at |-> r.at])
          /\ IF r.out = "panic" THEN pc' = "panic" /\ mi' = mi
             ELSE pc' = "loaded" /\ mi' = mi + 1
    /\ UNCHANGED <<root, obj0, objFile, flags, argv, fset, fromEnv, env, file,
                   ret, err, sVal, sRes>>

\* the walk over the fields that ends applyFlagOverrides, and New's return
ApplyFlags ==
    /\ pc = "loaded"
    /\ ~Changed(fset, FromEnvFlag) \/ mi > Len(fromEnv)
    /\ \E w \in {applyFlagOverrides(root, flags, fset, env, fromEnv,
                                     Walk(obj, allocs, mlog, FALSE))} :
          /\ obj' = w.obj /\ allocs' = w.allocs /\ mlog' = w.mlog
          /\ IF w.panic THEN pc' = "panic" /\ UNCHANGED <<ret, err>>
             ELSE pc' = "done" /\ ret' = "object" /\ err' = "none"
    /\ UNCHANGED <<root, obj0, objFile, flags, argv, fset, fromEnv, mi,
                   env, file, sVal, sRes>>

Next == Register \/ Parse \/ LoadFile \/ ApplyPair \/ ApplyFlags

Spec == Init /\ [][Next]_vars

\* "if configFile != """ is about to run: LoadFile can be taken, and taking
\* it changes pc
FilePending == pc = "parsed"

\* a pass of the pair loop is about to run: ApplyPair can be taken, and
\* taking it extends mlog
PairPending ==
    pc = "loaded" /\ AtRoot(<<>>) /\ Changed(fset, FromEnvFlag) /\ mi <= Len(fromEnv)

\* the pair loop is over and the walk over the fields is about to run:
\* ApplyFlags can be taken, and taking it changes pc
WalkPending ==
    pc = "loaded" /\ (~Changed(fset, FromEnvFlag) \/ mi > Len(fromEnv))

\* New runs on the calling thread with nothing to wait for: a step that can
\* be taken is taken. Register can be taken exactly while pc = "start", so
\* its fairness is that New leaves "start"; LoadFile, ApplyPair and
\* ApplyFlags can be taken exactly while FilePending, PairPending and
\* WalkPending, so their weak fairness is written out with these conditions.
FairSpec ==
    /\ Spec
    /\ <>(pc # "start")
    /\ WF_vars(Parse)
    /\ ([]<>(~FilePending) \/ []<><<LoadFile>>_vars)
    /\ ([]<>(~PairPending) \/ []<><<ApplyPair>>_vars)
    /\ ([]<>(~WalkPending) \/ []<><<ApplyFlags>>_vars)

-----------------------------------------------------------------------------
(* The substitution specification: resolveEnvVar applied to every short    *)
(* string over the characters that matter to it.                           *)

MaxSubstLen == 4   \* length of the strings resolveEnvVar is applied to

SubstChars == {"$", "{", "}", "A", "B"}
SubstInputs == SeqsUpTo(SubstChars, MaxSubstLen)

\* the variables A and {A}, each unset, empty, plain or itself a reference
SubstValues == {<<>>, <<"v">>, <<"$","A">>, <<"$","{","A","}">>}
\* A refers on to B, in either form; B holds a plain value or is not set
ChainEnvs ==
    {EnvFun(<<<<"A">>, <<"B">>>>, <<<<"$","B">>, <<"v">>>>),
     EnvFun(<<<<"A">>, <<"B">>>>, <<<<"$","{","B","}">>, <<"v">>>>),
     EnvFun(<<<<"A">>>>, <<<<"$","B">>>>)}
SubstEnvs ==
    UNION {[names -> SubstValues] : names \in SUBSET {<<"A">>, <<"{","A","}">>}}
    \cup ChainEnvs

\* New stays where it is
IdleNew ==
    /\ root = "Clash"
    /\ obj = ZeroObject(root) /\ obj0 = obj /\ objFile = obj
    /\ allocs = NoAllocs(root)
    /\ flags = ControlFlags
    /\ argv = <<>> /\ fset = NoFlagsSet /\ fromEnv = <<>>
    /\ mi = 0 /\ mlog = <<>>
    /\ file = NoFile
    /\ ret = "none" /\ err = "none"

InitSubst ==
    /\ pc = "subst"
    /\ IdleNew
    /\ env \in SubstEnvs
    /\ sVal \in SubstInputs
    /\ sRes = <<>>

\* resolvedVal := resolveEnvVar(val)
Resolve ==
    /\ pc = "subst"
    /\ sRes' = resolveEnvVar(env, sVal)
    /\ pc' = "substituted"
    /\ UNCHANGED <<root, obj, obj0, objFile, allocs, flags, argv, fset, fromEnv,
                   mi, mlog, env, file, ret, err, sVal>>

\* resolveEnvVar called on what it returned
ResolveAgain ==
    /\ pc = "substituted"
    /\ sRes' = resolveEnvVar(env, sRes)
    /\ pc' = "resubstituted"
    /\ UNCHANGED <<root, obj, obj0, objFile, allocs, flags, argv, fset, fromEnv,
                   mi, mlog, env, file, ret, err, sVal>>

NextSubst == Resolve \/ ResolveAgain

SpecSubst == InitSubst /\ [][NextSubst]_vars

-----------------------------------------------------------------------------
(* C7 *)

\* the ${NAME} form: more than 3 characters, "${" first, "}" last
IsBraced(s) == Len(s) > 3 /\ s[1] = "$" /\ s[2] = "{" /\ s[Len(s)] = "}"
\* the name a string refers to: between the delimiters of the ${NAME} form,
\* else after the "$"
RefName(s) == IF IsBraced(s) THEN SubSeq(s, 3, Len(s) - 1) ELSE SubSeq(s, 2, Len(s))
IsReference(s) == s # <<>> /\ (IsBraced(s) \/ s[1] = "$")
IsSetNonEmpty(e, name) == name \in DOMAIN e /\ e[name] # <<>>

\* C7: inline substitution gives the value of the variable a string names, in
\* the ${NAME} form first and the $NAME form otherwise, when that variable is
\* set and non-empty, and gives the string itself in every other case.
C7_Substitution ==
    pc = "substituted" =>
        sRes = IF IsReference(sVal) /\ IsSetNonEmpty(env, RefName(sVal))
               THEN env[RefName(sVal)] ELSE sVal

\* a ${A} reference was replaced by the value of A
C7_Witness ==
    /\ pc = "substituted" /\ sVal = <<"$","{","A","}">> /\ IsSetNonEmpty(env, <<"A">>)
    /\ sRes = env[<<"A">>] /\ sRes # sVal

-----------------------------------------------------------------------------
(* Vocabulary of the claims, stated apart from the operators that model    *)
(* the code.                                                               *)

Running == pc \in {"start", "registering", "registered", "parsed", "loaded", "done", "failed", "panic"}
Done == pc = "done"

\* the text of a tag before its first comma
RECURSIVE BeforeComma(_)
BeforeComma(tag) ==
    IF tag = <<>> \/ Head(tag) = "," THEN <<>> ELSE <<Head(tag)>> \o BeforeComma(Tail(tag))

\* the external name of a field: the first comma-segment of the yaml tag,
\* else the field name
ExternalOf(f) == IF BeforeComma(f.yaml) # <<>> THEN BeforeComma(f.yaml) ELSE f.name

\* the names a path segment may use for a field
NamesOf(f) == {f.name}
              \cup (IF f.yaml # <<>> THEN {BeforeComma(f.yaml)} ELSE {})
              \cup (IF f.json # <<>> THEN {BeforeComma(f.json)} ELSE {})
SameFold(a, b) == ToLower(a) = ToLower(b)
AnswersTo(f, seg) == f.exported /\ \E n \in NamesOf(f) : SameFold(n, seg)

\* the fields from the root to the field at p
FieldsTo(rt, p) == [k \in 1..Len(p) |-> FieldTable[rt][SubSeq(p, 1, k)]]

\* leaves: the fields of a primitive kind that has a flag
LeafPaths(rt) == {p \in PathsOf(rt) : FieldTable[rt][p].kind \in LeafKinds}
\* the leaves reached through exported struct and optional-struct fields
ExportedLeaves(rt) ==
    {p \in LeafPaths(rt) : \A k \in 1..Len(p) : FieldsTo(rt, p)[k].exported}
UnexportedPaths(rt) == {p \in PathsOf(rt) : ~FieldTable[rt][p].exported}

\* the dot-joined path of external names of the field at p
DotPath(rt, p) == Join([k \in 1..Len(p) |-> ExternalOf(FieldsTo(rt, p)[k])], <<".">>)

\* the segments of a dotted path name the fields on the way to p
Names(rt, p, segs) ==
    /\ Len(segs) = Len(p)
    /\ \A k \in 1..Len(p) : AnswersTo(FieldsTo(rt, p)[k], segs[k])

\* ... and no field declared earlier in the same struct answers to a segment
NamesFirst(rt, p, segs) ==
    /\ Names(rt, p, segs)
    /\ \A k \in 1..Len(p) : \A j \in 1..(p[k] - 1) :
          ~AnswersTo(FieldTable[rt][SubSeq(p, 1, k - 1) \o <<j>>], segs[k])

\* a --from-env entry: well formed when it holds "::"; its path and its
\* variable are the trimmed texts around the first "::"
WellFormed(pair) == Index(pair, <<":", ":">>) >= 0
PathOf(pair) == TrimSpace(SubSeq(pair, 1, Index(pair, <<":", ":">>)))
VarOf(pair) == TrimSpace(SubSeq(pair, Index(pair, <<":", ":">>) + 3, Len(pair)))
SegmentsOf(pair) == Split(PathOf(pair), <<".">>)
\* the entry's variable is set and non-empty
Supplied(pair) == WellFormed(pair) /\ IsSetNonEmpty(env, VarOf(pair))
Skipped(pair) == ~Supplied(pair)

\* a text converted to a kind: as is, base-10 integer, boolean or float, then
\* held by a leaf of that kind
Converts(kind, txt) ==
    CASE kind = "string" -> TRUE
      [] kind \in IntKinds -> ParseInt(txt).ok
      [] kind = "bool" -> ParseBool(txt).ok
      [] kind \in FloatKinds -> ParseFloat(txt).ok
Converted(kind, txt) ==
    CASE kind = "string" -> StrV(txt)
      [] kind \in IntKinds -> IntV(WrapInt(kind, ParseInt(txt).v.n))
      [] kind = "bool" -> ParseBool(txt).v
      [] kind \in FloatKinds -> RoundFloat(kind, ParseFloat(txt).v)

\* the entries processed so far that were applied to the leaf at p
AppliedTo(p) == {i \in DOMAIN mlog : mlog[i].out = "set" /\ mlog[i].at = p}
Mapped(p) == AppliedTo(p) # {}
LastApplied(p) == CHOOSE i \in AppliedTo(p) : \A j \in AppliedTo(p) : j <= i
MappedValue(rt, p) ==
    Converted(FieldTable[rt][p].kind, env[VarOf(fromEnv[LastApplied(p)])])

\* the flag of the leaf at p was explicitly set; its value as the leaf's kind
\* holds it (a text flag after inline substitution)
FlagSet(rt, p) == DotPath(rt, p) \in DOMAIN fset
RawFlagValue(rt, p) ==
    LET v == fset[DotPath(rt, p)]
    IN IF FieldTable[rt][p].kind = "string"
       THEN StrV(IF IsReference(v.s) /\ IsSetNonEmpty(env, RefName(v.s))
                 THEN env[RefName(v.s)] ELSE v.s)
       ELSE v
FlagValue(rt, p) ==
    LET v == RawFlagValue(rt, p)
        kind == FieldTable[rt][p].kind
    IN IF kind \in IntKinds THEN IntV(WrapInt(kind, v.n))
       ELSE IF kind \in FloatKinds THEN RoundFloat(kind, v)
       ELSE v

\* the node the document gives for the field at p, if any
RECURSIVE NodesAt(_, _, _)
NodesAt(t, node, p) ==
    IF p = <<>> THEN {node}
    ELSE IF node.t # "map" THEN {}
    ELSE UNION {NodesAt(TypeDef[t][p[1]].elem, node.kv[i].val, Tail(p)) :
                  i \in {i \in DOMAIN node.kv : node.kv[i].key = YamlKeys[t][p[1]]}}
FileLoaded == file.t = "map" /\ pc \in {"loaded", "done", "panic"}
\* the file gives the leaf at p a value
FileGives(rt, p) ==
    /\ FileLoaded
    /\ \E n \in NodesAt(rt, file, p) : n.t \notin {"map", "null"}

-----------------------------------------------------------------------------
(* C1 *)

\* C1: at New's return, a leaf that more than one source gave a value holds
\* the value of the highest of them: a changed flag beats a mapping and the
\* file, an applied mapping beats the file.
C1_Precedence ==
    Done => \A p \in ExportedLeaves(root) :
        /\ FlagSet(root, p) /\ (Mapped(p) \/ FileGives(root, p))
              => Live(obj, p) /\ obj[p] = FlagValue(root, p)
        /\ ~FlagSet(root, p) /\ Mapped(p) /\ FileGives(root, p)
              => Live(obj, p) /\ obj[p] = MappedValue(root, p)

\* the file, a mapping and a flag gave Server.Host three different values,
\* and it holds the flag's
C1_Witness ==
    /\ Done /\ root = "Config"
    /\ FileGives(root, <<1, 1>>) /\ Mapped(<<1, 1>>) /\ FlagSet(root, <<1, 1>>)
    /\ obj[<<1, 1>>] = FlagValue(root, <<1, 1>>)
    /\ FlagValue(root, <<1, 1>>) # MappedValue(root, <<1, 1>>)
    /\ FlagValue(root, <<1, 1>>) # objFile[<<1, 1>>]
    /\ MappedValue(root, <<1, 1>>) # objFile[<<1, 1>>]

-----------------------------------------------------------------------------
(* C2 *)

\* C2: at New's return every leaf whose flag was explicitly set, also a leaf
\* under an optional struct, exists and holds the flag's value, whatever the
\* file held.
C2_ChangedFlagStored ==
    Done => \A p \in ExportedLeaves(root) :
        FlagSet(root, p) => Live(obj, p) /\ obj[p] = FlagValue(root, p)

-----------------------------------------------------------------------------
(* C3 *)

-----------------------------------------------------------------------------
(* C4 *)

\* the entry names the leaf at p and its variable's value converts to the
\* leaf's kind
Targets(pair, p) ==
    /\ Supplied(pair)
    /\ NamesFirst(root, p, SegmentsOf(pair))
    /\ Converts(FieldTable[root][p].kind, env[VarOf(pair)])
ValueOf(pair, p) == Converted(FieldTable[root][p].kind, env[VarOf(pair)])

\* C4: a well-formed mapping whose variable is set and non-empty and whose
\* path names a primitive leaf writes the variable's value, converted to the
\* leaf's kind, into that leaf, with a config file or without one; with no
\* changed flag on that leaf the value of the last such mapping is the leaf's
\* final value.
C4_MappingWrites ==
    /\ pc = "loaded" /\ mi > 1
          => \A p \in ExportedLeaves(root) :
                Targets(fromEnv[mi - 1], p)
                    => Live(obj, p) /\ obj[p] = ValueOf(fromEnv[mi - 1], p)
    /\ Done
          => \A p \in ExportedLeaves(root) : \A i \in DOMAIN fromEnv :
                (/\ Targets(fromEnv[i], p)
                 /\ \A j \in DOMAIN fromEnv : j > i => ~Targets(fromEnv[j], p)
                 /\ ~FlagSet(root, p))
                    => Live(obj, p) /\ obj[p] = ValueOf(fromEnv[i], p)

\* --from-env server.host::H with H=api and no config file: Host is "api"
C4_Witness ==
    /\ Done /\ root = "Config" /\ file = NoFile
    /\ fromEnv = <<<<"s","e","r","v","e","r",".","h","o","s","t",":",":","H">>>>
    /\ Getenv(env, <<"H">>) = <<"a","p","i">>
    /\ obj0[<<1, 1>>] = StrV(<<>>)
    /\ obj[<<1, 1>>] = StrV(<<"a","p","i">>)

-----------------------------------------------------------------------------
(* C5 *)

\* the kind of the flag of a leaf kind
FlagKindOf(kind) ==
    CASE kind = "string" -> "string"
      [] kind \in IntKinds -> "int64"
      [] kind = "bool" -> "bool"
      [] kind \in FloatKinds -> "float64"
FlagOf(rt, p) ==
    [name |-> DotPath(rt, p), kind |-> FlagKindOf(FieldTable[rt][p].kind), def |-> obj0[p]]
IsControl(f) == f.name \in {<<"c","o","n","f","i","g">>, <<"f","r","o","m","-","e","n","v">>}

\* C5: once registration has ended, for every shape, there is exactly one
\* flag for each exported leaf reached through struct and optional-struct
\* fields, named by the dot-joined path of external names and defaulting to
\* the leaf's value at registration; the only other flags are config and
\* from-env.
C5_OneFlagPerLeaf ==
    pc \notin {"start", "registering"} =>
        /\ \A p \in ExportedLeaves(root) :
              Cardinality({i \in DOMAIN flags : flags[i].name = DotPath(root, p)}) = 1
        /\ {flags[i] : i \in {i \in DOMAIN flags : ~IsControl(flags[i])}}
              = {FlagOf(root, p) : p \in ExportedLeaves(root)}
        /\ Cardinality({i \in DOMAIN flags : IsControl(flags[i])}) = 2
        /\ Len(flags) = Cardinality(ExportedLeaves(root)) + 2

-----------------------------------------------------------------------------
(* C6 *)

\* C6: a string leaf that the file gives as ${NAME}, NAME set and non-empty,
\* and that no flag and no mapping targets, holds NAME's value when New
\* returns.
C6_FileReferenceResolved ==
    Done => \A p \in ExportedLeaves(root) :
        (/\ FieldTable[root][p].kind = "string"
         /\ FileLoaded /\ ~FlagSet(root, p) /\ ~Mapped(p))
            => \A n \in NodesAt(root, file, p) :
                  n.t = "str" /\ IsBraced(n.txt) /\ IsSetNonEmpty(env, RefName(n.txt))
                      => obj[p] = StrV(env[RefName(n.txt)])

-----------------------------------------------------------------------------
(* C8 *)

\* C8: processing an entry that has no "::" or whose variable is unset or
\* empty changes no field, raises no error and moves on to the next entry;
\* New then returns the object with every entry of the list processed.
C8_SkippedEntry ==
    /\ [][mlog' # mlog /\ Skipped(fromEnv[mi])
            => /\ obj' = obj /\ allocs' = allocs
               /\ err' = "none" /\ pc' = "loaded" /\ mi' = mi + 1]_vars
    /\ [](Done => err = "none" /\ ret = "object" /\ Len(mlog) = Len(fromEnv))

\* "onlyonepart" was skipped and the entry after it was applied
C8_Witness ==
    /\ Done /\ root = "Config" /\ Len(fromEnv) = 2
    /\ fromEnv[1] = <<"o","n","l","y","o","n","e","p","a","r","t">> /\ mlog[1].out = "invalid format"
    /\ Supplied(fromEnv[2]) /\ mlog[2].out = "set"
    /\ obj # objFile

-----------------------------------------------------------------------------
(* C10 *)

\* the entry processed last resolved to the leaf at p
ResolvedTo(p) == mlog[mi - 1].out = "set" /\ mlog[mi - 1].at = p

-----------------------------------------------------------------------------
(* C9 *)

Registered == pc \in {"registered", "parsed", "loaded", "done", "failed"}
NoFlagFor(p) == \A i \in DOMAIN flags : flags[i].name # DotPath(root, p)
\* the field at p holds in o what it holds in o1
SameIn(o, o1, p) == o[p] = o1[p] /\ (Live(o1, p) => Live(o, p))
\* the file gives null for an optional struct that contains the field at p
NulledByFile(p) ==
    /\ FileLoaded
    /\ \E k \in 1..(Len(p) - 1) :
          /\ IsStructPtr(FieldTable[root][SubSeq(p, 1, k)])
          /\ \E n \in NodesAt(root, file, SubSeq(p, 1, k)) : n.t = "null"

\* C9 as stated: an unexported field gets no flag, and when New returns it
\* holds the value it held before New.
C9_UnexportedAsBefore ==
    /\ Registered => \A p \in UnexportedPaths(root) : NoFlagFor(p)
    /\ Done => \A p \in UnexportedPaths(root) : SameIn(obj, obj0, p)

\* C9, amended: an unexported field gets no flag; the mapping phase and the
\* flag-override walk leave it as the file phase left it; and when New
\* returns it holds the value it held before New unless the file gave null
\* for an optional struct that contains it.
C9_UnexportedUnlessNulled ==
    /\ Registered => \A p \in UnexportedPaths(root) : NoFlagFor(p)
    /\ pc \in {"loaded", "done"}
          => \A p \in UnexportedPaths(root) : SameIn(obj, objFile, p)
    /\ Done => \A p \in UnexportedPaths(root) :
                  ~NulledByFile(p) => SameIn(obj, obj0, p)

\* the paths SECRET and secret were both tried, matched nothing, and the
\* field secret still holds the caller's "s3"
C9_Witness ==
    /\ Done /\ root = "Config"
    /\ fromEnv = <<<<"S","E","C","R","E","T",":",":","H">>, <<"s","e","c","r","e","t",":",":","H">>>>
    /\ Supplied(fromEnv[1]) /\ Supplied(fromEnv[2])
    /\ mlog[1].out = "not found" /\ mlog[2].out = "not found"
    /\ ~FieldTable[root][<<4>>].exported
    /\ obj[<<4>>] = StrV(<<"s","3">>)

-----------------------------------------------------------------------------
(* C11 *)

\* the optional-struct fields of a shape
StructPtrPaths(rt) == {p \in PathsOf(rt) : IsStructPtr(FieldTable[rt][p])}
\* the field at p is absent from the object
Absent(o, p) == o[p].k = "nil" \/ ~Live(o, p)
\* the file that was decoded gives null for the field at p
FileNulls(p) == FileLoaded /\ \E n \in NodesAt(root, file, p) : n.t = "null"

-----------------------------------------------------------------------------
(* C12 *)

\* the command line parses: every argument names a flag that registration
\* defined or a control flag, and its value converts to the flag's kind
ArgParses(a) ==
    \/ a.name \in {<<"c","o","n","f","i","g">>, <<"f","r","o","m","-","e","n","v">>}
    \/ \E p \in ExportedLeaves(root) :
          /\ a.name = DotPath(root, p)
          /\ LET kind == FieldTable[root][p].kind
             IN CASE kind = "string" -> TRUE
                  [] kind \in IntKinds -> ParseIntBase0(a.raw).ok
                  [] kind = "bool" -> ParseBool(a.raw).ok
                  [] kind \in FloatKinds -> ParseFloat(a.raw).ok
ArgsParse == \A i \in DOMAIN argv : ArgParses(argv[i])
Parsing == pc \in {"parsed", "loaded", "done", "failed"} \/ (pc = "panic" /\ mi > 0)
\* the --config flag was given with a non-empty path
ConfigGiven == \E i \in DOMAIN argv : argv[i].name = <<"c","o","n","f","i","g">> /\ argv[i].raw # <<>>
\* no leaf holds anything but what the caller put there
LeavesAsGiven == \A p \in LeafPaths(root) : obj[p] = obj0[p]

\* C12: a command line that does not parse, a config file that cannot be
\* read and one that cannot be decoded each end New with a nil object and an
\* error, with no mapping processed and no flag written and nothing done
\* after; a command line that does not parse leaves the file unread; and New
\* gets past these phases only when none of the three happened.
C12_FatalEndsNew ==
    /\ [](Parsing /\ ~ArgsParse
            => pc = "failed" /\ err = "parse" /\ file = NoFile /\ LeavesAsGiven)
    /\ [](Parsing /\ ArgsParse /\ ConfigGiven /\ file = Unreadable
            => pc = "failed" /\ err = "read" /\ LeavesAsGiven)
    /\ [](pc \in {"loaded", "done"}
            => /\ ArgsParse /\ file # Unreadable /\ (ConfigGiven <=> file # NoFile)
               /\ \A p \in PathsOf(root) :
                     FieldTable[root][p].kind = "struct" \/ IsStructPtr(FieldTable[root][p])
                        => \A n \in NodesAt(root, file, p) : n.t \in {"map", "null"})
    /\ [](pc = "failed"
            => /\ ret = "nil" /\ err \in {"parse", "read", "unmarshal"}
               /\ mlog = <<>> /\ mi = 0
               /\ (err = "unmarshal" => ArgsParse /\ file \notin {NoFile, Unreadable}))
    /\ [][pc = "failed" => pc' = "failed"]_vars

\* a file whose server key holds a scalar ended New with a decode error, and
\* the flag --server.host of the same command line was not written
C12_Witness ==
    /\ pc = "failed" /\ root = "Config" /\ ret = "nil" /\ err = "unmarshal"
    /\ file # NoFile /\ \E n \in NodesAt(root, file, <<1>>) : n.t = "str"
    /\ \E i \in DOMAIN argv : argv[i].name = <<"s","e","r","v","e","r",".","h","o","s","t">>
    /\ obj[<<1, 1>>] = obj0[<<1, 1>>]

-----------------------------------------------------------------------------
(* C13 *)

\* the arguments parsed and the file, if one was given, was decoded
PastFile == pc \in {"loaded", "done"} \/ (pc = "panic" /\ mi > 0)

\* C13: once the arguments parsed and the file was decoded New goes on to
\* return the object it was given and no error, whatever the mappings.
C13_ReturnsObject ==
    PastFile => /\ pc # "panic"
                /\ (pc = "done" => ret = "object" /\ err = "none")

-----------------------------------------------------------------------------
(* C14 *)

\* the exported fields that are pointers to a primitive
PrimPtrPaths(rt) ==
    {p \in PathsOf(rt) : /\ IsPrimPtr(FieldTable[rt][p])
                         /\ \A k \in 1..Len(p) : FieldsTo(rt, p)[k].exported}
\* a pointer to the value a text converts to
PointerTo(kind, txt) == [Converted(kind, txt) EXCEPT !.k = "ptr"]

\* C14: a field that is a pointer to a primitive has a flag named by its
\* path, and a mapping on that path whose value converts sets the value
\* pointed to.
C14_PrimitivePointerSupported ==
    /\ Registered
          => \A p \in PrimPtrPaths(root) :
                \E i \in DOMAIN flags : flags[i].name = DotPath(root, p)
    /\ (pc = "loaded" /\ mi > 1 /\ Supplied(fromEnv[mi - 1]))
          => \A p \in PrimPtrPaths(root) :
                (/\ NamesFirst(root, p, SegmentsOf(fromEnv[mi - 1]))
                 /\ Converts(FieldTable[root][p].elem, env[VarOf(fromEnv[mi - 1])]))
                    => obj[p] = PointerTo(FieldTable[root][p].elem,
                                          env[VarOf(fromEnv[mi - 1])])

-----------------------------------------------------------------------------
(* C15 *)

\* the from-env entries of the command line, in the order they were given:
\* the comma-separated entries of each --from-env argument
RECURSIVE EntriesOf(_)
EntriesOf(args) ==
    IF args = <<>> THEN <<>>
    ELSE (IF Head(args).name = <<"f","r","o","m","-","e","n","v">> /\ Head(args).raw # <<>>
          THEN Split(Head(args).raw, <<",">>) ELSE <<>>)
         \o EntriesOf(Tail(args))
MappingPhaseOver == pc = "loaded" /\ mi > Len(EntriesOf(argv))

\* C15: when the mapping phase ends, a leaf that two entries of the command
\* line were applied to holds the value of the one given later.
C15_LaterMappingWins ==
    MappingPhaseOver =>
        LET entries == EntriesOf(argv)
        IN \A p \in ExportedLeaves(root) : \A i, j \in DOMAIN entries :
              (/\ i < j
               /\ Targets(entries[i], p) /\ Targets(entries[j], p)
               /\ \A k \in DOMAIN entries : k > j => ~Targets(entries[k], p))
                  => obj[p] = ValueOf(entries[j], p)

\* server.host::H was given before SERVER.Host::P, and Host holds P's value
C15_Witness ==
    /\ MappingPhaseOver /\ root = "Config"
    /\ EntriesOf(argv) = <<<<"s","e","r","v","e","r",".","h","o","s","t",":",":","H">>, <<"S","E","R","V","E","R",".","H","o","s","t",":",":","P">>>>
    /\ IsSetNonEmpty(env, <<"H">>) /\ Getenv(env, <<"P">>) # Getenv(env, <<"H">>)
    /\ obj[<<1, 1>>] = StrV(Getenv(env, <<"P">>))

-----------------------------------------------------------------------------
(* C16 *)

\* registration defined a name a second time
RegistrationPanicked == pc = "panic" /\ mi = 0

\* C16: the names registration defines, one per leaf beside config and
\* from-env, are pairwise distinct, and registration defines no name twice.
C16_DistinctFlagNames ==
    pc # "start" =>
        /\ \A p, q \in ExportedLeaves(root) :
              p # q => DotPath(root, p) # DotPath(root, q)
        /\ \A p \in ExportedLeaves(root) : DotPath(root, p) \notin {<<"c","o","n","f","i","g">>, <<"f","r","o","m","-","e","n","v">>}
        /\ \A i, j \in DOMAIN flags : i # j => flags[i].name # flags[j].name
        /\ ~RegistrationPanicked

-----------------------------------------------------------------------------
(* C17 *)

\* C17: a mapping that names a text leaf stores the variable's value as it
\* is, also when that value has the form of a reference to a variable that is
\* set.
C17_MappingTextLiteral ==
    (pc = "loaded" /\ mi > 1 /\ Supplied(fromEnv[mi - 1]))
        => \A p \in ExportedLeaves(root) :
              (/\ FieldTable[root][p].kind = "string"
               /\ NamesFirst(root, p, SegmentsOf(fromEnv[mi - 1])))
                  => obj[p].s = env[VarOf(fromEnv[mi - 1])]

\* R holds $H and H is set: the mapping server.host::R stored $H in Host
C17_Witness ==
    /\ pc = "loaded" /\ mi = 2 /\ root = "Config"
    /\ PathOf(fromEnv[1]) = <<"s","e","r","v","e","r",".","h","o","s","t">> /\ VarOf(fromEnv[1]) = <<"R">>
    /\ Getenv(env, <<"R">>) = <<"$","H">> /\ IsSetNonEmpty(env, <<"H">>)
    /\ obj[<<1, 1>>] = StrV(<<"$","H">>)
    /\ obj[<<1, 1>>] # StrV(Getenv(env, <<"H">>))

-----------------------------------------------------------------------------
(* C18 *)

\* the entry's variable is set and non-empty, but its path names no leaf
\* whose kind the value converts to
CannotBeApplied(pair) ==
    Supplied(pair) /\ \A p \in ExportedLeaves(root) : ~Targets(pair, p)

\* C18: processing a mapping whose path cannot be applied changes no leaf
\* value, raises no error and moves on to the next entry, so that the later
\* mappings and the flag-override walk still run.
C18_FailingMappingSkipped ==
    [][mlog' # mlog /\ CannotBeApplied(fromEnv[mi])
          => /\ \A p \in LeafPaths(root) : obj'[p] = obj[p]
             /\ err' = "none" /\ pc' = "loaded" /\ mi' = mi + 1]_vars

-----------------------------------------------------------------------------
(* C19 *)

\* the mapping phase is over and the flag-override walk is about to start
WalkStarts == pc = "loaded" /\ (fromEnv = <<>> \/ mi > Len(fromEnv))
\* the leaves that lie under an optional struct
LeavesUnderOptional(rt) ==
    {p \in ExportedLeaves(rt) : \E q \in Prefixes(p) : q \in StructPtrPaths(rt)}

\* C19: when the flag-override walk starts every optional-struct field is
\* instantiated, and when New returns a leaf under an optional struct whose
\* flag was set holds the flag's value, whatever the file gave for the struct.
C19_InstantiatedAtWalk ==
    /\ WalkStarts => \A p \in StructPtrPaths(root) : ~Absent(obj, p)
    /\ Done => \A p \in LeavesUnderOptional(root) :
                  FlagSet(root, p) => ~Absent(obj, p) /\ obj[p] = FlagValue(root, p)

-----------------------------------------------------------------------------
(* C20 *)

\* New has ended: it returned, or it crashed
Ended == pc \in {"done", "failed", "panic"}

\* C20: New terminates for every shape, also one whose optional struct holds
\* an optional struct of its own type: registration finishes and New reaches
\* its end.
C20_NewTerminates == <>Ended

-----------------------------------------------------------------------------
(* C21 *)

\* the kinds a field is bound by: text, signed integer, boolean, float
BoundKinds == {"string", "bool", "int", "int8", "int16", "int32", "int64",
               "float32", "float64"}
\* the exported fields that are neither a struct, nor an optional struct, nor
\* of a bound kind
UnboundPaths(rt) ==
    {p \in PathsOf(rt) :
        /\ \A k \in 1..Len(p) : FieldsTo(rt, p)[k].exported
        /\ FieldTable[rt][p].kind \notin BoundKinds \cup {"struct"}
        /\ ~IsStructPtr(FieldTable[rt][p])}

-----------------------------------------------------------------------------
(* C22 *)

\* this step processes a from-env entry
ProcessesEntry == mlog' # mlog

\* C22: the entries of the from-env list are processed one by one, each once,
\* by the root call alone and before the flag-override walk: the walk, in
\* none of its recursive steps, processes an entry, and what it writes are
\* the values of changed flags; at New's return every entry was processed
\* exactly once.
C22_MappingsOnceAtRoot ==
    /\ [][ProcessesEntry
            => /\ pc = "loaded" /\ pc' # "done"
               /\ mi \in DOMAIN fromEnv
               /\ Len(mlog) = mi - 1 /\ Len(mlog') = mi
               /\ SubSeq(mlog', 1, Len(mlog)) = mlog]_vars
    /\ [][pc' = "done"
            => /\ mlog' = mlog /\ allocs' = allocs
               /\ \A p \in LeafPaths(root) :
                     obj'[p] # obj[p]
                        => FlagSet(root, p) /\ obj'[p] = FlagValue(root, p)]_vars
    /\ [](Done => Len(mlog) = Len(fromEnv))

\* server.host::H was applied once, and the walk then went into Server and
\* stored --server.port there without applying it again
C22_Witness ==
    /\ Done /\ root = "Config"
    /\ fromEnv = <<<<"s","e","r","v","e","r",".","h","o","s","t",":",":","H">>>> /\ mlog = <<[out |-> "set", at |-> <<1, 1>>]>>
    /\ FlagSet(root, <<1, 2>>) /\ obj[<<1, 2>>] = IntV(9000) /\ objFile[<<1, 2>>] # IntV(9000)
    /\ obj[<<1, 1>>] = StrV(Getenv(env, <<"H">>))

-----------------------------------------------------------------------------
(* C23 *)

\* the leaf whose flag has the name P, if registration defined one
FlagLeaves(P) ==
    {p \in ExportedLeaves(root) :
        DotPath(root, p) = P /\ \E i \in DOMAIN flags : flags[i].name = P}

\* C23: a mapping whose path is the name of a registered leaf flag, and whose
\* value converts, is applied to the leaf that flag belongs to.
C23_PathAgreesWithFlag ==
    (pc = "loaded" /\ mi > 1 /\ Supplied(fromEnv[mi - 1]))
        => \A p \in FlagLeaves(PathOf(fromEnv[mi - 1])) :
              Converts(FieldTable[root][p].kind, env[VarOf(fromEnv[mi - 1])])
                  => ResolvedTo(p)

-----------------------------------------------------------------------------
(* C24 *)

\* the exported integer leaves declared narrower than 64 bits
NarrowKinds == {"int8", "int16", "int32"}
NarrowLeaves(rt) == {p \in ExportedLeaves(rt) : FieldTable[rt][p].kind \in NarrowKinds}

\* C24: a narrow integer leaf that a mapping was applied to holds the integer
\* the variable gives, and at New's return one whose flag was set holds the
\* integer given to the flag: never that integer wrapped to the leaf's width.
C24_NarrowIntegerExact ==
    /\ (pc = "loaded" /\ mi > 1)
          => \A p \in NarrowLeaves(root) :
                ResolvedTo(p) => obj[p] = ParseInt(env[VarOf(fromEnv[mi - 1])]).v
    /\ Done
          => \A p \in NarrowLeaves(root) :
                FlagSet(root, p) /\ Live(obj, p) => obj[p] = fset[DotPath(root, p)]

-----------------------------------------------------------------------------
(* C25 *)

\* the command line names the flag of the leaf at p
OnCommandLine(p) == \E i \in DOMAIN argv : argv[i].name = DotPath(root, p)
\* the default of the flag of the leaf at p: the leaf's value at registration
DefaultOf(p) == obj0[p]
\* the flag of the leaf at p was given the value that is its default
GivenItsDefault(p) == FlagSet(root, p) /\ fset[DotPath(root, p)] = DefaultOf(p)

\* C25: once the command line parsed, the flag of every leaf it names counts
\* as set, whatever the value given; and at New's return a leaf whose flag was
\* given its default value holds that value, also when the file or a mapping
\* gave the leaf another one.
C25_DefaultValueStillSet ==
    /\ pc \in {"parsed", "loaded", "done"}
          => \A p \in ExportedLeaves(root) : OnCommandLine(p) <=> FlagSet(root, p)
    /\ Done
          => \A p \in ExportedLeaves(root) :
                GivenItsDefault(p) /\ (Mapped(p) \/ FileGives(root, p))
                    => Live(obj, p) /\ obj[p] = DefaultOf(p)

\* --server.port 8080, the default, replaced the 9000 of the file
C25_Witness ==
    /\ Done /\ root = "Config"
    /\ OnCommandLine(<<1, 2>>) /\ GivenItsDefault(<<1, 2>>)
    /\ FileGives(root, <<1, 2>>) /\ objFile[<<1, 2>>] = IntV(9000)
    /\ obj[<<1, 2>>] = IntV(8080)

-----------------------------------------------------------------------------
(* C26 *)

\* the text is a reference to a variable that is unset or empty
DanglingReference(txt) == IsReference(txt) /\ ~IsSetNonEmpty(env, RefName(txt))
\* the text given to the flag of the leaf at p
FlagText(p) == fset[DotPath(root, p)].s
TextLeaves(rt) == {p \in ExportedLeaves(rt) : FieldTable[rt][p].kind = "string"}

\* C26: at New's return a text leaf whose flag was set to a reference to an
\* unset or empty variable holds the reference as it was written, also when
\* the file or a mapping gave the leaf a value: the flag replaces it.
C26_DanglingReferenceLiteral ==
    Done => \A p \in TextLeaves(root) :
        (FlagSet(root, p) /\ DanglingReference(FlagText(p)) /\ Live(obj, p))
            => obj[p] = StrV(FlagText(p))

\* --server.host ${U} with U unset: Host holds "${U}", not the "api" that the
\* mapping server.host::H had written
C26_Witness ==
    /\ Done /\ root = "Config"
    /\ FlagSet(root, <<1, 1>>) /\ FlagText(<<1, 1>>) = <<"$","{","U","}">> /\ <<"U">> \notin DOMAIN env
    /\ Mapped(<<1, 1>>) /\ MappedValue(root, <<1, 1>>) = StrV(<<"a","p","i">>)
    /\ obj[<<1, 1>>] = StrV(<<"$","{","U","}">>)

-----------------------------------------------------------------------------
(* C27 *)

\* what one application of the substitution gives for a text
OnePass(txt) ==
    IF IsReference(txt) /\ IsSetNonEmpty(env, RefName(txt)) THEN env[RefName(txt)] ELSE txt

\* C27: when the variable a reference names holds a text that is itself a
\* reference, the substitution gives that text as it is, without expanding
\* it; a second application is one more single pass over the result of the
\* first.
C27_SinglePass ==
    /\ [](pc = "substituted" /\ IsReference(sVal) /\ IsSetNonEmpty(env, RefName(sVal))
             /\ IsReference(env[RefName(sVal)])
            => sRes = env[RefName(sVal)])
    /\ [][pc = "substituted" => sRes' = OnePass(sRes)]_vars

\* $A with A=$B and B=v: one application gave "$B", a second one gave "v"
C27_Witness ==
    /\ pc = "resubstituted" /\ sVal = <<"$","A">>
    /\ Getenv(env, <<"A">>) = <<"$","B">> /\ <<"B">> \in DOMAIN env /\ Getenv(env, <<"B">>) = <<"v">>
    /\ OnePass(sVal) = <<"$","B">>
    /\ sRes = <<"v">> /\ sRes # OnePass(sVal)

-----------------------------------------------------------------------------
(* C28 *)

\* the outcomes of an entry that are a diagnostic
Diagnostics == {"invalid format", "not set or empty", "not a struct", "not found",
                "invalid", "not a struct or pointer", "cannot set", "unsupported",
                "cannot convert"}
\* this step processed an entry that ended in a diagnostic
EndsInDiagnostic == ProcessesEntry /\ mlog'[Len(mlog')].out \in Diagnostics

\* C28: processing an entry that ends in a diagnostic leaves the whole object
\* as it was, the absent optional structs included: nothing is allocated.
C28_DiagnosticChangesNothing ==
    [][EndsInDiagnostic => obj' = obj /\ allocs' = allocs]_vars

-----------------------------------------------------------------------------
(* C29 *)

\* a key of the decoded file names the leaf at p
FileNames(p) == FileLoaded /\ NodesAt(root, file, p) # {}
\* neither the file, nor an applied mapping, nor a set flag names the leaf
Untargeted(p) == ~FileNames(p) /\ ~Mapped(p) /\ ~FlagSet(root, p)

\* C29 as stated: at New's return a leaf that no key of the file, no applied
\* mapping and no set flag names holds what the caller stored in it.
C29_UntargetedAsGiven ==
    Done => \A p \in LeafPaths(root) : Untargeted(p) => SameIn(obj, obj0, p)

\* C29, amended: ... unless the file gave null for an optional struct that
\* contains the leaf, which removes the struct and the leaf with it.
C29_UntargetedUnlessNulled ==
    Done => \A p \in LeafPaths(root) :
        Untargeted(p) /\ ~NulledByFile(p) => SameIn(obj, obj0, p)

\* the file was decoded and --server.host was stored, and Server.Port, which
\* nothing names, still holds the caller's 8080
C29_Witness ==
    /\ Done /\ root = "Config" /\ FileLoaded
    /\ Untargeted(<<1, 2>>) /\ ~NulledByFile(<<1, 2>>)
    /\ obj0[<<1, 2>>] = IntV(8080) /\ obj[<<1, 2>>] = IntV(8080)
    /\ FlagSet(root, <<1, 1>>) /\ obj[<<1, 1>>] # obj0[<<1, 1>>]

====
